---- MODULE Spec2Model ----
(***************************************************************************)
(* A model of the balsa micro-templating engine: the parser-combinator     *)
(* engine (parser.rs), the template grammar (balsa_parser.rs), the         *)
(* compiler (balsa_compiler.rs), the type cast rules (balsa_type_cast.rs)  *)
(* and the renderer (balsa_renderer.rs).                                   *)
(*                                                                         *)
(* Text is a sequence of one-character strings.  A 64-bit integer is kept  *)
(* as a sign and a decimal magnitude (a sequence of digits without leading *)
(* zeros), so that the 32-bit and 64-bit limits keep their real values.    *)
(***************************************************************************)
EXTENDS Integers, Sequences, FiniteSets, TLC

VARIABLES
    pc,            \* position of the build / render pipeline
    raw_template,  \* Template.raw_template: the source text
    parts,         \* the pieces the source text was assembled from (input provenance)
    tokens,        \* result of BalsaParser::parse
    compiled,      \* result of Compiler::compile_from_tokens
    calls,         \* one record per render call: parameters, RenderContext, result
    cast_in,       \* input of a stand-alone try_cast call: value and target type
    cast_out,      \* its result
    parse_in,      \* input of a stand-alone Parser::parse call: parser, pos and input
    parse_out      \* its result

vars == <<pc, raw_template, parts, tokens, compiled, calls, cast_in, cast_out,
          parse_in, parse_out>>

(***************************************************************************)
(* Text and numbers                                                        *)
(***************************************************************************)

\* str::chars: the characters of a string, in order.
Chars(s) == [i \in 1..Len(s) |-> SubSeq(s, i, i)]

\* The characters of a text from position n (1-based) to its end.
DropFront(s, n) == SubSeq(s, n + 1, Len(s))

RECURSIVE Concat(_)
\* Concatenation of a sequence of texts.
Concat(ss) == IF ss = <<>> THEN <<>> ELSE Head(ss) \o Concat(Tail(ss))

DigitChars == Chars("0123456789")

DigitVal(c) == (CHOOSE i \in 1..10 : DigitChars[i] = c) - 1

DigitChar(d) == DigitChars[d + 1]

RECURSIVE StripZeros(_)
\* A digit sequence without its leading zeros (a lone zero is kept).
StripZeros(ds) ==
    IF Len(ds) > 1 /\ Head(ds) = 0 THEN StripZeros(Tail(ds)) ELSE ds

\* a < b for two magnitudes (digit sequences without leading zeros).
MagLess(a, b) ==
    \/ Len(a) < Len(b)
    \/ /\ Len(a) = Len(b)
       /\ \E i \in 1..Len(a) :
            /\ a[i] < b[i]
            /\ \A j \in 1..(i - 1) : a[j] = b[j]

MagLeq(a, b) == a = b \/ MagLess(a, b)

\* The magnitude written by a run of decimal digit characters.
MagOf(cs) == StripZeros([i \in 1..Len(cs) |-> DigitVal(cs[i])])

\* i64::MAX, -i64::MIN, i32::MAX, -i32::MIN as magnitudes.
I64_MAX == MagOf(Chars("9223372036854775807"))
I64_MIN_MAG == MagOf(Chars("9223372036854775808"))
I32_MAX == MagOf(Chars("2147483647"))
I32_MIN_MAG == MagOf(Chars("2147483648"))

\* An i64 written as a decimal numeral with an optional leading minus sign.
Int64(s) ==
    LET cs == Chars(s) IN
    IF Head(cs) = "-" THEN [neg |-> TRUE, mag |-> MagOf(Tail(cs))]
    ELSE [neg |-> FALSE, mag |-> MagOf(cs)]

IsI64(n) == IF n.neg THEN MagLeq(n.mag, I64_MIN_MAG) ELSE MagLeq(n.mag, I64_MAX)

\* str::parse::<i64> on a non-empty run of ASCII digits: fails on overflow.
ParseI64(cs) ==
    LET m == MagOf(cs) IN
    IF MagLeq(m, I64_MAX) THEN [ok |-> TRUE, val |-> [neg |-> FALSE, mag |-> m]]
    ELSE [ok |-> FALSE]

\* i32::try_from(i64): succeeds iff the value is in -2^31 ..  2^31 - 1.
I32TryFrom(n) ==
    IF n.neg THEN MagLeq(n.mag, I32_MIN_MAG) ELSE MagLeq(n.mag, I32_MAX)

\* f64::from(i32): exact; a float is a sign, an integer part and a fraction.
F64FromI32(n) == [neg |-> n.neg, mag |-> n.mag, frac |-> <<>>]

\* i64::to_string.
IntToString(n) ==
    (IF n.neg THEN <<"-">> ELSE <<>>) \o [i \in 1..Len(n.mag) |-> DigitChar(n.mag[i])]

\* f64::to_string (Display): no fraction is printed for an integral value.
FloatToString(f) ==
    (IF f.neg THEN <<"-">> ELSE <<>>)
        \o [i \in 1..Len(f.mag) |-> DigitChar(f.mag[i])]
        \o (IF f.frac = <<>> THEN <<>>
            ELSE <<".">> \o [i \in 1..Len(f.frac) |-> DigitChar(f.frac[i])])

(***************************************************************************)
(* Values and types (balsa_types.rs)                                       *)
(***************************************************************************)

BalsaType == {"String", "Color", "Integer", "Float"}

StringV(s) == [t |-> "String", s |-> Chars(s)]
ColorV(s) == [t |-> "Color", s |-> Chars(s)]
IntegerV(s) == [t |-> "Integer", i |-> Int64(s)]
FloatV(neg, int, frac) ==
    [t |-> "Float",
     f |-> [neg |-> neg, mag |-> MagOf(Chars(int)),
            frac |-> [k \in 1..Len(frac) |-> DigitVal(Chars(frac)[k])]]]

\* BalsaValue::get_type
get_type(v) == v.t

(***************************************************************************)
(* validators.rs: the CSS colour regular expression                        *)
(***************************************************************************)

HexChars == {Chars("0123456789abcdef")[i] : i \in 1..16}
DecChars == {DigitChars[i] : i \in 1..10}
\* \s of the regular expression, within the characters TLA+ can write.
ReSpace == {" ", "\t", "\n", "\r", "\f"}

NamedColors == {Chars(n) : n \in {
    "black", "silver", "gray", "whitesmoke", "maroon", "red", "purple", "fuchsia",
    "green", "lime", "olivedrab", "yellow", "navy", "blue", "teal", "aquamarine",
    "orange", "aliceblue", "antiquewhite", "aqua", "azure", "beige", "bisque",
    "blanchedalmond", "blueviolet", "brown", "burlywood", "cadetblue", "chartreuse",
    "chocolate", "coral", "cornflowerblue", "cornsilk", "crimson", "currentcolor",
    "darkblue", "darkcyan", "darkgoldenrod", "darkgray", "darkgreen", "darkgrey",
    "darkkhaki", "darkmagenta", "darkolivegreen", "darkorange", "darkorchid",
    "darkred", "darksalmon", "darkseagreen", "darkslateblue", "darkslategray",
    "darkslategrey", "darkturquoise", "darkviolet", "deeppink", "deepskyblue",
    "dimgray", "dimgrey", "dodgerblue", "firebrick", "floralwhite", "forestgreen",
    "gainsboro", "ghostwhite", "goldenrod", "gold", "greenyellow", "grey",
    "honeydew", "hotpink", "indianred", "indigo", "ivory", "khaki", "lavenderblush",
    "lavender", "lawngreen", "lemonchiffon", "lightblue", "lightcoral", "lightcyan",
    "lightgoldenrodyellow", "lightgray", "lightgreen", "lightgrey", "lightpink",
    "lightsalmon", "lightseagreen", "lightskyblue", "lightslategray",
    "lightslategrey", "lightsteelblue", "lightyellow", "limegreen", "linen",
    "mediumaquamarine", "mediumblue", "mediumorchid", "mediumpurple",
    "mediumseagreen", "mediumslateblue", "mediumspringgreen", "mediumturquoise",
    "mediumvioletred", "midnightblue", "mintcream", "mistyrose", "moccasin",
    "navajowhite", "oldlace", "olive", "orangered", "orchid", "palegoldenrod",
    "palegreen", "paleturquoise", "palevioletred", "papayawhip", "peachpuff",
    "peru", "pink", "plum", "powderblue", "rosybrown", "royalblue", "saddlebrown",
    "salmon", "sandybrown", "seagreen", "seashell", "sienna", "skyblue",
    "slateblue", "slategray", "slategrey", "snow", "springgreen", "steelblue",
    "tan", "thistle", "tomato", "transparent", "turquoise", "violet", "wheat",
    "white", "yellowgreen", "rebeccapurple"}}

\* The positions (index of the next unread character) reached from a position
\* of P by reading one character of the class C.
ReOne(s, P, C) == {p + 1 : p \in {q \in P : q <= Len(s) /\ s[q] \in C}}

RECURSIVE RePlus(_, _, _)
\* C+ : one or more characters of the class C.
RePlus(s, P, C) ==
    LET n == ReOne(s, P, C) IN IF n = {} THEN {} ELSE n \cup RePlus(s, n, C)

\* C* and C?
ReStar(s, P, C) == P \cup RePlus(s, P, C)
ReOpt(s, P, C) == P \cup ReOne(s, P, C)

RECURSIVE ReLit(_, _, _)
\* A literal text.
ReLit(s, P, lit) ==
    IF lit = <<>> THEN P ELSE ReLit(s, ReOne(s, P, {Head(lit)}), Tail(lit))

\* (-?\d+%?[,\s]+)
ReColorArg(s, P) ==
    RePlus(s, ReOpt(s, RePlus(s, ReOpt(s, P, {"-"}), DecChars), {"%"}), {","} \cup ReSpace)

\* (rgb|hsl)a?\((-?\d+%?[,\s]+){2,3}\s*[\d\.]+%?\)$
ReColorFunction(s) ==
    LET open == ReLit(s, ReOpt(s, ReLit(s, {1}, Chars("rgb")) \cup ReLit(s, {1}, Chars("hsl")),
                               {"a"}), <<"(">>)
        two == ReColorArg(s, ReColorArg(s, open))
        args == two \cup ReColorArg(s, two)
        last == ReOpt(s, RePlus(s, ReStar(s, args, ReSpace), DecChars \cup {"."}), {"%"})
    IN  (Len(s) + 1) \in ReLit(s, last, <<")">>)

\* #(?:[0-9a-f]{2}){2,4}$ | (#[0-9a-f]{3}$)
ReColorHex(s) ==
    /\ Len(s) \in {4, 5, 7, 9}
    /\ s[1] = "#"
    /\ \A i \in 2..Len(s) : s[i] \in HexChars

\* validators::is_valid_color
is_valid_color(color) ==
    ReColorHex(color) \/ ReColorFunction(color) \/ color \in NamedColors

(***************************************************************************)
(* balsa_type_cast.rs                                                      *)
(***************************************************************************)

InvalidTypeCast(v, target_type) ==
    [ok |-> FALSE, error |-> [value |-> v, from |-> get_type(v), to |-> target_type]]

\* Mutant of CastIntegerToFloat: the range check is made against 2^31 inclusive.
CastIntegerToFloat_wide(v, target_type) ==
    IF MagLeq(v.i.mag, I32_MIN_MAG)
    THEN [ok |-> TRUE, value |-> [t |-> "Float", f |-> F64FromI32(v.i)]]
    ELSE InvalidTypeCast(v, target_type)

\* Mutant of CastIntegerToFloat: the value is returned as the Integer it was.
CastIntegerToFloat_unconverted(v, target_type) ==
    IF I32TryFrom(v.i) THEN [ok |-> TRUE, value |-> v]
    ELSE InvalidTypeCast(v, target_type)

\* Integer -> Float: only a value that fits an i32 is converted.
CastIntegerToFloat(v, target_type) ==
    IF I32TryFrom(v.i) THEN [ok |-> TRUE, value |-> [t |-> "Float", f |-> F64FromI32(v.i)]]
    ELSE InvalidTypeCast(v, target_type)

\* Mutant of CastStringToColor: the text is not validated.
CastStringToColor_unchecked(v, target_type) ==
    [ok |-> TRUE, value |-> [t |-> "Color", s |-> v.s]]

\* String -> Color: only a valid colour text is converted.
CastStringToColor(v, target_type) ==
    IF is_valid_color(v.s) THEN [ok |-> TRUE, value |-> [t |-> "Color", s |-> v.s]]
    ELSE InvalidTypeCast(v, target_type)

\* BalsaValue::try_cast
try_cast(v, target_type) ==
    LET err == InvalidTypeCast(v, target_type) IN
    CASE v.t = "String" ->
            (CASE target_type = "String" -> [ok |-> TRUE, value |-> v]
               [] target_type = "Color" -> CastStringToColor(v, target_type)
               [] OTHER -> err)
      [] v.t = "Color" ->
            (CASE target_type = "String" -> [ok |-> TRUE, value |-> [t |-> "String", s |-> v.s]]
               [] target_type = "Color" -> [ok |-> TRUE, value |-> v]
               [] OTHER -> err)
      [] v.t = "Integer" ->
            (CASE target_type = "Integer" -> [ok |-> TRUE, value |-> v]
               [] target_type = "Float" -> CastIntegerToFloat(v, target_type)
               [] OTHER -> err)
      [] v.t = "Float" ->
            (CASE target_type = "Float" -> [ok |-> TRUE, value |-> v]
               [] OTHER -> err)

(***************************************************************************)
(* parser.rs: the combinator engine                                        *)
(*                                                                         *)
(* A parser (a boxed `dyn Parser`) is a tree of combinator nodes; `parse`  *)
(* is the dynamic dispatch on the node kind.  A mapping closure is named   *)
(* by a tag that `Apply1` / `Apply2` interpret.                            *)
(***************************************************************************)

\* ParseResult: Ok((remainder, Parsed { start_pos, end_pos, token })) or Err(error)
Parsed(remainder, start_pos, end_pos, token) ==
    [ok |-> TRUE, remainder |-> remainder, start_pos |-> start_pos,
     end_pos |-> end_pos, token |-> token]

NotMatched == [ok |-> FALSE, error |-> "NotMatched"]
MalformedInput(n) == [ok |-> FALSE, error |-> "MalformedInput", at |-> n]

\* Option<T>
Some(v) == [some |-> TRUE, v |-> v]
None == [some |-> FALSE]

\* HashMap::insert: a map is a function from keys to values.
MapInsert(m, key, value) ==
    [x \in (DOMAIN m) \cup {key} |-> IF x = key THEN value ELSE m[x]]

EmptyMap == [x \in {} |-> x]

RECURSIVE tuple_vec_to_map_from(_, _)
tuple_vec_to_map_from(map, tuples) ==
    IF tuples = <<>> THEN map
    ELSE tuple_vec_to_map_from(MapInsert(map, Head(tuples)[1], Head(tuples)[2]), Tail(tuples))

\* converters::tuple_vec_to_map: a later pair with the same key overwrites.
tuple_vec_to_map(tuples) == tuple_vec_to_map_from(EmptyMap, tuples)

RECURSIVE Flatten(_)
\* v.into_iter().flatten().collect() on a Vec<Option<T>>
Flatten(v) ==
    IF v = <<>> THEN <<>>
    ELSE (IF Head(v).some THEN <<Head(v).v>> ELSE <<>>) \o Flatten(Tail(v))

\* The closures given to fmap / fmap_result: token and span context in, token out.
Apply1(f, token, ctx) ==
    CASE f.fn = "unit" -> [ok |-> TRUE, token |-> "()"]
      [] f.fn = "String::from" -> [ok |-> TRUE, token |-> <<token>>]
      [] f.fn = "BalsaValue::String" -> [ok |-> TRUE, token |-> [t |-> "String", s |-> token]]
      [] f.fn = "parse_i64" ->
            LET r == ParseI64(token) IN
            IF r.ok THEN [ok |-> TRUE, token |-> [t |-> "Integer", i |-> r.val]]
            ELSE [ok |-> FALSE, err |-> MalformedInput(0)]
      [] f.fn = "BalsaType" -> [ok |-> TRUE, token |-> f.ty]
      [] f.fn = "Value" -> [ok |-> TRUE, token |-> [e |-> "Value", value |-> token]]
      [] f.fn = "Type" -> [ok |-> TRUE, token |-> [e |-> "Type", ty |-> token]]
      [] f.fn = "Identifier" -> [ok |-> TRUE, token |-> [e |-> "Identifier", name |-> token]]
      [] f.fn = "Some" -> [ok |-> TRUE, token |-> Some(token)]
      [] f.fn = "None" -> [ok |-> TRUE, token |-> None]
      [] f.fn = "flatten" -> [ok |-> TRUE, token |-> Flatten(token)]
      [] f.fn = "unwrap_or_else" ->
            [ok |-> TRUE, token |-> IF token.some THEN token.v ELSE <<>>]
      [] f.fn = "DeclarationBlock" ->
            [ok |-> TRUE,
             token |-> [b |-> "DeclarationBlock", start_pos |-> ctx.start_pos,
                        end_pos |-> ctx.end_pos, declarations |-> token]]
      [] f.fn = "ParameterBlock" ->
            [ok |-> TRUE,
             token |-> [b |-> "ParameterBlock", start_pos |-> ctx.start_pos,
                        end_pos |-> ctx.end_pos, param |-> token]]

\* The closures given to fmap_chain / fmap_result_chain.
Apply2(f, lt, rt) ==
    CASE f.fn = "second" -> [ok |-> TRUE, token |-> rt]
      [] f.fn = "pair" -> [ok |-> TRUE, token |-> <<lt, rt>>]
      [] f.fn = "Declaration" ->
            [ok |-> TRUE,
             token |-> [identifier |-> lt[1], variable_type |-> lt[2], value |-> rt]]
      [] f.fn = "ParameterBlockIntermediate" ->
            [ok |-> TRUE,
             token |-> [variable_name |-> lt[1], variable_type |-> lt[2],
                        options |-> IF rt.some THEN Some(tuple_vec_to_map(rt.v)) ELSE None]]

\* Combinable::combine for the token types chained in the grammar.
combine(impl, l, r) ==
    CASE impl = "String+char" -> Append(l, r)
      [] impl = "String+String" -> l \o r
      [] impl = "T+Vec" -> <<l>> \o r
      [] impl = "T+Option<Vec>" -> <<l>> \o (IF r.some THEN r.v ELSE <<>>)

\* Number of leading characters of `input` that are in / are not in the set C.
LeadingIn(input, C) ==
    LET stop == {i \in 1..Len(input) : input[i] \notin C} IN
    IF stop = {} THEN Len(input)
    ELSE (CHOOSE i \in stop : \A j \in stop : i <= j) - 1

LeadingNotIn(input, C) ==
    LET stop == {i \in 1..Len(input) : input[i] \in C} IN
    IF stop = {} THEN Len(input)
    ELSE (CHOOSE i \in stop : \A j \in stop : i <= j) - 1

\* Parser constructors.
char_parser(value) == [k |-> "char", value |-> value]
take_until_char_parser(terminator) == [k |-> "take_until", terminator |-> terminator]
take_while_chars_parser(allowed_chars) == [k |-> "take_while", allowed_chars |-> allowed_chars]
fmap_result(parser, function) == [k |-> "fmap_result", parser |-> parser, function |-> function]
fmap(parser, function) == fmap_result(parser, function)
chain(left_p, right_p, impl) == [k |-> "chain", left |-> left_p, right |-> right_p, impl |-> impl]
or(left_p, right_p) == [k |-> "or", left |-> left_p, right |-> right_p]
fmap_result_chain(left_p, right_p, combinator) ==
    [k |-> "fmap_result_chain", left |-> left_p, right |-> right_p, combinator |-> combinator]
fmap_chain(left_p, right_p, combinator) == fmap_result_chain(left_p, right_p, combinator)
optional(parser) == [k |-> "optional", parser |-> parser]
left(left_p, right_p) == [k |-> "left", left |-> left_p, right |-> right_p]
right(left_p, right_p) == [k |-> "right", left |-> left_p, right |-> right_p]
middle(left_p, middle_p, right_p) == right(left_p, left(middle_p, right_p))
many(parser) == [k |-> "many", parser |-> parser]
one_to_many(parser) == [k |-> "one_to_many", parser |-> many(parser)]

RECURSIVE string_parser_fold(_, _)
string_parser_fold(acc, chars) ==
    IF chars = <<>> THEN acc
    ELSE string_parser_fold(chain(acc, char_parser(Head(chars)), "String+char"), Tail(chars))

\* string_parser: the first character mapped to a String, the others chained on.
string_parser(value) ==
    string_parser_fold(fmap(char_parser(Head(value)), [fn |-> "String::from"]), Tail(value))

delimited_list(item, delimiter) ==
    fmap(optional(chain(item,
                        optional(many(fmap_chain(delimiter, item, [fn |-> "second"]))),
                        "T+Option<Vec>")),
         [fn |-> "unwrap_or_else"])

key_sep_value(key, delimiter, value) ==
    fmap_chain(key, right(delimiter, value), [fn |-> "pair"])

RECURSIVE parse(_, _, _)
RECURSIVE many_loop(_, _, _, _)

char_parse(p, pos, input) ==
    IF input # <<>> /\ Head(input) = p.value
    THEN Parsed(Tail(input), pos, pos + 1, p.value)
    ELSE NotMatched

take_until_char_parse(p, pos, input) ==
    LET n == LeadingNotIn(input, {p.terminator}) IN
    IF n = 0 THEN NotMatched
    ELSE Parsed(DropFront(input, n), pos, pos + n, SubSeq(input, 1, n))

take_while_chars_parse(p, pos, input) ==
    LET n == LeadingIn(input, p.allowed_chars) IN
    IF n = 0 THEN NotMatched
    ELSE Parsed(DropFront(input, n), pos, pos + n, SubSeq(input, 1, n))

fmap_result_parse(p, pos, input) ==
    LET out == parse(p.parser, pos, input) IN
    IF ~out.ok THEN out
    ELSE LET r == Apply1(p.function, out.token, out) IN
         IF r.ok THEN Parsed(out.remainder, out.start_pos, out.end_pos, r.token)
         ELSE r.err

chain_parse(p, pos, input) ==
    LET l == parse(p.left, pos, input) IN
    IF ~l.ok THEN l
    ELSE LET r == parse(p.right, l.end_pos, l.remainder) IN
         IF ~r.ok THEN r
         ELSE Parsed(r.remainder, l.start_pos, r.end_pos, combine(p.impl, l.token, r.token))

\* or: `or_else(|_| ...)` runs the right parser after any failure of the left.
or_parse(p, pos, input) ==
    LET l == parse(p.left, pos, input) IN
    IF l.ok THEN l ELSE parse(p.right, pos, input)

fmap_result_chain_parse(p, pos, input) ==
    LET l == parse(p.left, pos, input) IN
    IF ~l.ok THEN l
    ELSE LET r == parse(p.right, l.end_pos, l.remainder) IN
         IF ~r.ok THEN r
         ELSE LET c == Apply2(p.combinator, l.token, r.token) IN
              IF c.ok THEN Parsed(r.remainder, l.start_pos, r.end_pos, c.token)
              ELSE c.err

optional_parse(p, pos, input) ==
    LET r == parse(p.parser, pos, input) IN
    IF r.ok THEN Parsed(r.remainder, r.start_pos, r.end_pos, Some(r.token))
    ELSE IF r.error = "NotMatched" THEN Parsed(input, pos, pos, None)
    ELSE r

\* Mutant of left_parse: the span ends where the left parser's match ends.
left_parse_inner_span(p, pos, input) ==
    LET l == parse(p.left, pos, input) IN
    IF ~l.ok THEN l
    ELSE LET r == parse(p.right, l.end_pos, l.remainder) IN
         IF ~r.ok THEN r
         ELSE Parsed(r.remainder, l.start_pos, l.end_pos, l.token)

left_parse(p, pos, input) ==
    LET l == parse(p.left, pos, input) IN
    IF ~l.ok THEN l
    ELSE LET r == parse(p.right, l.end_pos, l.remainder) IN
         IF ~r.ok THEN r
         ELSE Parsed(r.remainder, l.start_pos, r.end_pos, l.token)

\* Mutant of right_parse: the span starts where the right parser's match starts.
right_parse_inner_start(p, pos, input) ==
    LET l == parse(p.left, pos, input) IN
    IF ~l.ok THEN l
    ELSE LET r == parse(p.right, l.end_pos, l.remainder) IN
         IF ~r.ok THEN r
         ELSE Parsed(r.remainder, r.start_pos, r.end_pos, r.token)

right_parse(p, pos, input) ==
    LET l == parse(p.left, pos, input) IN
    IF ~l.ok THEN l
    ELSE LET r == parse(p.right, l.end_pos, l.remainder) IN
         IF ~r.ok THEN r
         ELSE Parsed(r.remainder, l.start_pos, r.end_pos, r.token)

\* Mutant of many_loop: a new token is put in front of the earlier ones.
many_loop_prepend(parser, end_pos, remainder, tokens_acc) ==
    LET r == parse(parser, end_pos, remainder) IN
    IF r.ok THEN many_loop(parser, r.end_pos, r.remainder, <<r.token>> \o tokens_acc)
    ELSE IF r.error = "NotMatched"
         THEN [ok |-> TRUE, remainder |-> remainder, end_pos |-> end_pos, token |-> tokens_acc]
         ELSE r

\* The loop of `many`: stops at the first NotMatched, fails on any other error.
many_loop(parser, end_pos, remainder, tokens_acc) ==
    LET r == parse(parser, end_pos, remainder) IN
    IF r.ok THEN many_loop(parser, r.end_pos, r.remainder, Append(tokens_acc, r.token))
    ELSE IF r.error = "NotMatched"
         THEN [ok |-> TRUE, remainder |-> remainder, end_pos |-> end_pos, token |-> tokens_acc]
         ELSE r

many_parse(p, pos, input) ==
    LET r == many_loop(p.parser, pos, input, <<>>) IN
    IF r.ok THEN Parsed(r.remainder, pos, r.end_pos, r.token) ELSE r

one_to_many_parse(p, pos, input) ==
    LET r == parse(p.parser, pos, input) IN
    IF r.ok /\ r.token = <<>> THEN NotMatched ELSE r

\* Parser::parse on a boxed parser.
parse(p, pos, input) ==
    CASE p.k = "char" -> char_parse(p, pos, input)
      [] p.k = "take_until" -> take_until_char_parse(p, pos, input)
      [] p.k = "take_while" -> take_while_chars_parse(p, pos, input)
      [] p.k = "fmap_result" -> fmap_result_parse(p, pos, input)
      [] p.k = "chain" -> chain_parse(p, pos, input)
      [] p.k = "or" -> or_parse(p, pos, input)
      [] p.k = "fmap_result_chain" -> fmap_result_chain_parse(p, pos, input)
      [] p.k = "optional" -> optional_parse(p, pos, input)
      [] p.k = "left" -> left_parse(p, pos, input)
      [] p.k = "right" -> right_parse(p, pos, input)
      [] p.k = "many" -> many_parse(p, pos, input)
      [] p.k = "one_to_many" -> one_to_many_parse(p, pos, input)

(***************************************************************************)
(* balsa_parser.rs: the template grammar                                   *)
(***************************************************************************)

STR_LITERAL_QUOTE == "\""
ALLOWED_VARIABLE_CHARACTERS ==
    Chars("abcdefghijklmnopqrstuvwxyzABCDEFGHIJKLMNOPQRSTUVWXYZ123456789-_")
DIGITS == Chars("1234567890")
KEY_VALUE_DELIMETER == ":"
LIST_ELEMENT_DELIMETER == ","
DECLARATION_DELIMITER == "="

CharSet(cs) == {cs[i] : i \in 1..Len(cs)}

Unit == [fn |-> "unit"]

parameter_open_bracket_p == fmap(string_parser(Chars("{{")), Unit)
declaration_open_bracket_p == fmap(string_parser(Chars("{{@")), Unit)
closing_bracket_p == fmap(string_parser(Chars("}}")), Unit)

ws_p == fmap(optional(take_while_chars_parser({" ", "\t", "\n"})), Unit)

ws_padded_p(parser) == middle(ws_p, parser, ws_p)

variable_name_p == take_while_chars_parser(CharSet(ALLOWED_VARIABLE_CHARACTERS))

string_literal_p ==
    fmap(middle(char_parser("\""), take_until_char_parser("\""), char_parser("\"")),
         [fn |-> "BalsaValue::String"])

int_literal_p == fmap_result(take_while_chars_parser(CharSet(DIGITS)), [fn |-> "parse_i64"])

balsa_type_p ==
    or(fmap(string_parser(Chars("string")), [fn |-> "BalsaType", ty |-> "String"]),
       or(fmap(string_parser(Chars("color")), [fn |-> "BalsaType", ty |-> "Color"]),
          or(fmap(string_parser(Chars("int")), [fn |-> "BalsaType", ty |-> "Integer"]),
             fmap(string_parser(Chars("float")), [fn |-> "BalsaType", ty |-> "Float"]))))

balsa_value_p == or(string_literal_p, int_literal_p)

balsa_expr_p ==
    or(fmap(balsa_value_p, [fn |-> "Value"]),
       or(fmap(balsa_type_p, [fn |-> "Type"]),
          fmap(variable_name_p, [fn |-> "Identifier"])))

key_value_delimiter_p == fmap(ws_padded_p(char_parser(KEY_VALUE_DELIMETER)), Unit)

variable_with_type_p == key_sep_value(balsa_expr_p, key_value_delimiter_p, balsa_expr_p)

key_value_p == key_sep_value(variable_name_p, key_value_delimiter_p, balsa_expr_p)

list_delimeter == fmap(ws_padded_p(char_parser(LIST_ELEMENT_DELIMETER)), Unit)

declaration_delimiter_p == fmap(ws_padded_p(char_parser(DECLARATION_DELIMITER)), Unit)

declaration_p ==
    fmap_chain(variable_with_type_p,
               right(declaration_delimiter_p, balsa_expr_p),
               [fn |-> "Declaration"])

declaration_block_p ==
    fmap(middle(declaration_open_bracket_p,
                ws_padded_p(delimited_list(declaration_p, list_delimeter)),
                closing_bracket_p),
         [fn |-> "DeclarationBlock"])

parameter_block_p ==
    fmap(middle(parameter_open_bracket_p,
                ws_padded_p(fmap_chain(variable_with_type_p,
                                       optional(right(list_delimeter,
                                                      delimited_list(key_value_p, list_delimeter))),
                                       [fn |-> "ParameterBlockIntermediate"])),
                closing_bracket_p),
         [fn |-> "ParameterBlock"])

\* Parses any kind of block into a BalsaToken.
block_p == or(parameter_block_p, declaration_block_p)

\* The literal text up to the next `{`, which take_until_char_parser requires to
\* be non-empty.
literal_text_p == take_until_char_parser("{")

balsa_p ==
    fmap(many(right(literal_text_p,
                    or(fmap(block_p, [fn |-> "Some"]),
                       fmap(take_while_chars_parser({"{"}), [fn |-> "None"])))),
         [fn |-> "flatten"])

TemplateParseFail == [ok |-> FALSE, error |-> [kind |-> "TemplateParseFail", pos |-> 0]]

\* BalsaParser::parse
BalsaParser_parse(input) ==
    LET r == parse(balsa_p, 0, input) IN
    IF r.ok THEN [ok |-> TRUE, tokens |-> r.token] ELSE TemplateParseFail

(***************************************************************************)
(* balsa_compiler.rs                                                       *)
(***************************************************************************)

\* parameter_names::DEFAULT_VALUE
DEFAULT_VALUE == Chars("defaultValue")

\* BalsaExpression::as_identifier / as_type / as_value
as_identifier(x) == IF x.e = "Identifier" THEN Some(x.name) ELSE None
as_type(x) == IF x.e = "Type" THEN Some(x.ty) ELSE None
as_value(x) == IF x.e = "Value" THEN Some(x.value) ELSE None

invalid_identifier_in_parameter_block(pos, x) ==
    [ok |-> FALSE,
     error |-> [kind |-> "InvalidIdentifierForParameterBlock", pos |-> pos, expression |-> x]]
invalid_identifier_in_declaration_block(pos, x) ==
    [ok |-> FALSE,
     error |-> [kind |-> "InvalidIdentifierForDeclarationBlock", pos |-> pos, expression |-> x]]
invalid_type_expression(pos, x) ==
    [ok |-> FALSE, error |-> [kind |-> "InvalidTypeExpression", pos |-> pos, expression |-> x]]
invalid_expression(pos, x) ==
    [ok |-> FALSE, error |-> [kind |-> "InvalidExpression", pos |-> pos, expression |-> x]]
invalid_type_cast(pos, cast) ==
    [ok |-> FALSE, error |-> [kind |-> "InvalidTypeCast", pos |-> pos, cast |-> cast]]
invalid_parameter(pos, key) ==
    [ok |-> FALSE, error |-> [kind |-> "InvalidParameter", pos |-> pos, parameter_name |-> key]]

\* The orders in which a HashMap with the key set S can be iterated.
IterationOrders(S) ==
    {f \in [1..Cardinality(S) -> S] : \A x \in S : \E i \in 1..Cardinality(S) : f[i] = x}

\* `as_value()...try_cast(type_)` with both failures mapped to compile errors.
value_cast_to(pos, x, type_) ==
    IF ~as_value(x).some THEN invalid_expression(pos, x)
    ELSE LET c == try_cast(as_value(x).v, type_) IN
         IF c.ok THEN c ELSE invalid_type_cast(pos, c.error)

RECURSIVE options_loop(_, _, _, _)
\* Mutant of options_loop: the default is stored as written, neither cast nor
\* checked against the declared type.
options_loop_uncast(block, type_, order, default_value) ==
    IF order = <<>> THEN [ok |-> TRUE, default_value |-> default_value]
    ELSE LET key == Head(order)
             value == block.param.options.v[key]
         IN  IF key = DEFAULT_VALUE
             THEN IF as_value(value).some
                  THEN options_loop(block, type_, Tail(order), as_value(value))
                  ELSE invalid_expression(block.start_pos, value)
             ELSE invalid_parameter(block.start_pos, key)

\* The `for (key, value) in map` loop of parse_param_block, for one iteration order.
options_loop(block, type_, order, default_value) ==
    IF order = <<>> THEN [ok |-> TRUE, default_value |-> default_value]
    ELSE LET key == Head(order)
             value == block.param.options.v[key]
         IN  IF key = DEFAULT_VALUE
             THEN LET c == value_cast_to(block.start_pos, value, type_) IN
                  IF c.ok THEN options_loop(block, type_, Tail(order), Some(c.value))
                  ELSE c
             ELSE invalid_parameter(block.start_pos, key)

\* The instruction parse_param_block pushes.
param_instruction(block, name, type_, default_value) ==
    [start_pos |-> block.start_pos, end_pos |-> block.end_pos,
     replace_with |-> [r |-> "Parameter",
                       param |-> [variable_name |-> name, variable_type |-> type_,
                                  default_value |-> default_value]]]

\* Compiler::parse_param_block: the possible outcomes, one per iteration order of
\* the options map.
parse_param_block(compiler, block) ==
    LET i == as_identifier(block.param.variable_name)
        type_ == as_type(block.param.variable_type)
    IN  IF ~i.some
        THEN {invalid_identifier_in_parameter_block(block.start_pos, block.param.variable_name)}
        ELSE IF ~type_.some
        THEN {invalid_type_expression(block.start_pos, block.param.variable_type)}
        ELSE LET orders == IF block.param.options.some
                           THEN IterationOrders(DOMAIN block.param.options.v)
                           ELSE {<<>>}
             IN  {LET o == options_loop(block, type_.v, order, None) IN
                  IF ~o.ok THEN o
                  ELSE [ok |-> TRUE,
                        compiler |->
                            [compiler EXCEPT !.replacements =
                                Append(@, param_instruction(block, i.v, type_.v, o.default_value))]]
                  : order \in orders}

RECURSIVE declarations_loop(_, _, _)
\* Mutant of declarations_loop: an identifier already in the global scope keeps
\* its value.
declarations_loop_keep_first(compiler, block, ds) ==
    IF ds = <<>> THEN [ok |-> TRUE, compiler |-> compiler]
    ELSE LET declaration == Head(ds)
             identifier == as_identifier(declaration.identifier)
             type_ == as_type(declaration.variable_type)
         IN  IF ~identifier.some
             THEN invalid_identifier_in_declaration_block(block.start_pos, declaration.identifier)
             ELSE IF ~type_.some
             THEN invalid_type_expression(block.start_pos, declaration.variable_type)
             ELSE LET c == value_cast_to(block.start_pos, declaration.value, type_.v) IN
                  IF ~c.ok THEN c
                  ELSE declarations_loop(
                           [compiler EXCEPT !.global_scope =
                               IF identifier.v \in DOMAIN @ THEN @
                               ELSE MapInsert(@, identifier.v, c.value)],
                           block, Tail(ds))

\* The `for declaration in &block.token` loop of parse_dec_block.
declarations_loop(compiler, block, ds) ==
    IF ds = <<>> THEN [ok |-> TRUE, compiler |-> compiler]
    ELSE LET declaration == Head(ds)
             identifier == as_identifier(declaration.identifier)
             type_ == as_type(declaration.variable_type)
         IN  IF ~identifier.some
             THEN invalid_identifier_in_declaration_block(block.start_pos, declaration.identifier)
             ELSE IF ~type_.some
             THEN invalid_type_expression(block.start_pos, declaration.variable_type)
             ELSE LET c == value_cast_to(block.start_pos, declaration.value, type_.v) IN
                  IF ~c.ok THEN c
                  ELSE declarations_loop(
                           [compiler EXCEPT !.global_scope = MapInsert(@, identifier.v, c.value)],
                           block, Tail(ds))

\* Mutant of parse_dec_block: a Nothing instruction is pushed for the block.
parse_dec_block_nothing(compiler, block) ==
    {LET o == declarations_loop(compiler, block, block.declarations) IN
     IF ~o.ok THEN o
     ELSE [ok |-> TRUE,
           compiler |-> [o.compiler EXCEPT !.replacements =
                            Append(@, [start_pos |-> block.start_pos,
                                       end_pos |-> block.end_pos,
                                       replace_with |-> [r |-> "Nothing"]])]]}

\* Compiler::parse_dec_block
parse_dec_block(compiler, block) == {declarations_loop(compiler, block, block.declarations)}

\* One iteration of the `for token in tokens` loop.
compile_token(compiler, token) ==
    IF token.b = "ParameterBlock" THEN parse_param_block(compiler, token)
    ELSE parse_dec_block(compiler, token)

RECURSIVE compile_loop(_, _)
\* Mutant of compile_loop: a failing token is skipped unless it is the last one.
compile_loop_keep_going(compiler, toks) ==
    IF toks = <<>>
    THEN {[ok |-> TRUE,
           template |-> [global_scope |-> compiler.global_scope,
                         replacements |-> compiler.replacements]]}
    ELSE UNION {IF o.ok THEN compile_loop(o.compiler, Tail(toks))
                ELSE IF Len(toks) > 1 THEN compile_loop(compiler, Tail(toks))
                ELSE {o}
                : o \in compile_token(compiler, Head(toks))}

compile_loop(compiler, toks) ==
    IF toks = <<>>
    THEN {[ok |-> TRUE,
           template |-> [global_scope |-> compiler.global_scope,
                         replacements |-> compiler.replacements]]}
    ELSE UNION {IF o.ok THEN compile_loop(o.compiler, Tail(toks)) ELSE {o}
                : o \in compile_token(compiler, Head(toks))}

\* Compiler::compile_from_tokens: the set of results it can return.
compile_from_tokens(toks) ==
    compile_loop([global_scope |-> EmptyMap, replacements |-> <<>>], toks)

(***************************************************************************)
(* balsa_renderer.rs                                                       *)
(***************************************************************************)

missing_parameter(name) ==
    [ok |-> FALSE, error |-> [kind |-> "MissingParameter", parameter_name |-> name]]

\* Mutant of invalid_parameter_type: received and expected type swapped.
invalid_parameter_type_swapped(name, received_value, received_type, expected_type) ==
    [ok |-> FALSE,
     error |-> [kind |-> "InvalidParameterType", parameter_name |-> name,
                received_value |-> received_value, received_type |-> expected_type,
                expected_type |-> received_type]]

invalid_parameter_type(name, received_value, received_type, expected_type) ==
    [ok |-> FALSE,
     error |-> [kind |-> "InvalidParameterType", parameter_name |-> name,
                received_value |-> received_value, received_type |-> received_type,
                expected_type |-> expected_type]]

\* BalsaParameters::get
parameters_get(parameters, key) ==
    IF key \in DOMAIN parameters THEN Some(parameters[key]) ELSE None

\* RenderContext::new
RenderContext_new(raw, parameters) ==
    [output |-> <<>>, chars_written |-> 0, chars |-> raw, parameters |-> parameters]

\* `(&mut chars).take(n)`: the characters taken and the iterator left.
TakeChars(chars, n) ==
    LET m == IF n < Len(chars) THEN n ELSE Len(chars) IN
    [taken |-> SubSeq(chars, 1, m), rest |-> DropFront(chars, m)]

\* First half of prepend_missing_chars: copy the text before the block.
copy_before_block(ctx, replacement) ==
    IF ctx.chars_written < replacement.start_pos
    THEN LET n == replacement.start_pos - ctx.chars_written
             t == TakeChars(ctx.chars, n)
         IN  [ctx EXCEPT !.output = @ \o t.taken, !.chars = t.rest,
                         !.chars_written = @ + n]
    ELSE ctx

\* Mutant of drop_block: the block's characters stay in the iterator.
drop_block_keep(ctx, replacement) == ctx

\* Second half of prepend_missing_chars: drop the block's own characters.
drop_block(ctx, replacement) ==
    IF ctx.chars_written < replacement.end_pos
    THEN LET n == replacement.end_pos - ctx.chars_written
             t == TakeChars(ctx.chars, n)
         IN  [ctx EXCEPT !.chars = t.rest, !.chars_written = @ + n]
    ELSE ctx

\* RenderContext::prepend_missing_chars
prepend_missing_chars(ctx, replacement) ==
    drop_block(copy_before_block(ctx, replacement), replacement)

\* Mutant of resolve_value: the default wins over the runtime value.
resolve_value_default_first(parameters, p) ==
    IF p.default_value.some THEN p.default_value
    ELSE parameters_get(parameters, p.variable_name)

\* The value a parameter instruction resolves to: the runtime value, else the default.
resolve_value(parameters, p) ==
    LET v == parameters_get(parameters, p.variable_name) IN
    IF v.some THEN v ELSE p.default_value

\* The text pushed for a cast value.
value_text(v) ==
    CASE v.t = "String" -> v.s
      [] v.t = "Color" -> v.s
      [] v.t = "Integer" -> IntToString(v.i)
      [] v.t = "Float" -> FloatToString(v.f)

\* The Parameter arm of RenderContext::next.
render_parameter(ctx, p) ==
    LET value == resolve_value(ctx.parameters, p) IN
    IF ~value.some THEN missing_parameter(p.variable_name)
    ELSE LET c == try_cast(value.v, p.variable_type) IN
         IF ~c.ok
         THEN invalid_parameter_type(p.variable_name, value.v, get_type(value.v), p.variable_type)
         ELSE [ok |-> TRUE, ctx |-> [ctx EXCEPT !.output = @ \o value_text(c.value)]]

\* RenderContext::next
RenderContext_next(ctx, replacement) ==
    LET c == prepend_missing_chars(ctx, replacement) IN
    IF replacement.replace_with.r = "Parameter"
    THEN render_parameter(c, replacement.replace_with.param)
    ELSE [ok |-> TRUE, ctx |-> c]

\* Mutant of RenderContext_output: the characters after the last instruction are
\* not flushed.
RenderContext_output_unflushed(ctx) == ctx.output

\* RenderContext::output
RenderContext_output(ctx) == ctx.output \o ctx.chars

RECURSIVE render_loop(_, _)
\* `for replacement in &replacements { ctx.next(replacement)?; }` run to its end.
render_loop(ctx, replacements) ==
    IF replacements = <<>> THEN [ok |-> TRUE, ctx |-> ctx]
    ELSE LET r == RenderContext_next(ctx, Head(replacements)) IN
         IF r.ok THEN render_loop(r.ctx, Tail(replacements)) ELSE r

\* Renderer::render_with_parameters, run without interruption.
render_with_parameters(raw, compiled_template, parameters) ==
    LET r == render_loop(RenderContext_new(raw, parameters), compiled_template.replacements) IN
    IF r.ok THEN [ok |-> TRUE, output |-> RenderContext_output(r.ctx)] ELSE r

(***************************************************************************)
(* Inputs                                                                  *)
(***************************************************************************)

\* A run of ASCII digits above i64::MAX, without and with the digit 0.
OverflowDigits == "99999999999999999999"
OverflowDigitsZero == "10000000000000000000"

\* Bounds of the model.
MaxParts == 4
NumCalls == 1

Lit(s) == [kind |-> "literal", text |-> Chars(s), name |-> <<>>]
StringParam(s, name) == [kind |-> "string_param", text |-> Chars(s), name |-> Chars(name)]
Block(s, name) == [kind |-> "block", text |-> Chars(s), name |-> Chars(name)]

\* Literal text without `{`, and a lone `{`.
LiteralParts == {Lit("a"), Lit(" b}"), Lit("{")}

\* Well-formed parameter blocks of type string, without and with a default.
StringParamParts ==
    {StringParam("{{ x : string }}", "x"),
     StringParam("{{ city : string, defaultValue: \"Unknown\" }}", "city")}

\* Typed parameters, a default that needs a cast, a declaration block.
TypedBlockParts ==
    {Block("{{ n : float, defaultValue: 80000 }}", "n"),
     Block("{{k:int}}", "k"),
     Block("{{@ k : string = \"v\" }}", "k")}

\* A block with an unknown option key.
BogusOptionPart == Block("{{ x : string, bogus: \"y\" }}", "x")

\* Blocks with one or several invalid sub-expressions.
InvalidBlockParts ==
    {BogusOptionPart,
     Block("{{ \"x\" : y, bogus: 1 }}", "x"),
     Block("{{ x : y, bogus: 1 }}", "x"),
     Block("{{ x : string, bogus: \"y\", defaultValue: 5 }}", "x"),
     Block("{{ x : string, defaultValue: y }}", "x"),
     Block("{{@ k : int = \"v\" }}", "k"),
     Block("{{@ k : int = 1, 5 : int = 2 }}", "k")}

\* The parts of the templates that are built and rendered.
RenderParts == LiteralParts \cup StringParamParts \cup TypedBlockParts \cup {BogusOptionPart}

\* The parts of the templates that are only built.
BuildParts ==
    {Lit("a"), StringParam("{{ x : string }}", "x"), Block("{{@ k : string = \"v\" }}", "k")}
        \cup InvalidBlockParts

\* The templates over a set of parts: every sequence of 1 .. MaxParts parts.
PartSeqs(pool) == UNION {[1..n -> pool] : n \in 1..MaxParts}

PartsText(ps) == Concat([i \in 1..Len(ps) |-> ps[i].text])

RECURSIVE MapOf(_)
\* The map built from a sequence of <<name, value>> pairs.
MapOf(pairs) ==
    IF pairs = <<>> THEN EmptyMap
    ELSE MapInsert(MapOf(Tail(pairs)), Chars(Head(pairs)[1]), Head(pairs)[2])

\* The runtime parameter maps a render call is given.
ParameterMaps ==
    {EmptyMap,
     MapOf(<< <<"x", StringV("World")>>, <<"y", StringV("!")>>,
              <<"city", StringV("Paris")>>, <<"n", IntegerV("7")>>,
              <<"k", IntegerV("-42")>> >>),
     MapOf(<< <<"x", IntegerV("5")>>, <<"city", ColorV("red")>>,
              <<"n", IntegerV("3000000000")>>, <<"k", FloatV(FALSE, "1", "5")>> >>)}

\* The values and target types try_cast is applied to.
CastValues ==
    {StringV("purple"), StringV("not-a-color"), StringV("#fff"), StringV("rgb(0 , 0,2)"),
     StringV("Purple"),
     ColorV("red"), ColorV("#ff0000"), ColorV("no colour"),
     IntegerV("0"), IntegerV("80000"), IntegerV("2147483647"), IntegerV("2147483648"),
     IntegerV("-2147483648"), IntegerV("-2147483649"), IntegerV("3000000000"),
     IntegerV("9223372036854775807"), IntegerV("-9223372036854775808"),
     FloatV(FALSE, "1", "5"), FloatV(FALSE, "80000", ""), FloatV(TRUE, "0", "25")}

(***************************************************************************)
(* The state machine                                                       *)
(***************************************************************************)

NotCompiled == [ok |-> FALSE, error |-> [kind |-> "none"]]
NoResult == [ok |-> FALSE, error |-> [kind |-> "none"]]
NoCast == [ok |-> FALSE, error |-> [kind |-> "none"]]
NoParse == [ok |-> FALSE, error |-> [kind |-> "none"]]

IdleCall ==
    [pc |-> "idle", ctx |-> RenderContext_new(<<>>, EmptyMap), next |-> 1, result |-> NoResult]

\* Balsa::from_string: a builder holding a source text assembled from parts of `pool`.
InitFrom(pool) ==
    /\ pc = "source"
    /\ parts \in PartSeqs(pool)
    /\ raw_template = PartsText(parts)
    /\ tokens = <<>>
    /\ compiled = NotCompiled
    /\ calls = [c \in 1..NumCalls |-> IdleCall]
    /\ cast_in = NoCast
    /\ cast_out = NoCast
    /\ parse_in = NoParse
    /\ parse_out = NoParse

Init == InitFrom(RenderParts)

\* BalsaBuilder::build, first half: BalsaParser::parse(raw_template).
Parse ==
    /\ pc = "source"
    /\ LET r == BalsaParser_parse(raw_template) IN
       /\ tokens' = (IF r.ok THEN r.tokens ELSE <<>>)
       /\ compiled' = (IF r.ok THEN compiled ELSE r)
       /\ pc' = (IF r.ok THEN "parsed" ELSE "build_failed")
    /\ UNCHANGED <<raw_template, parts, calls, cast_in, cast_out, parse_in, parse_out>>

\* BalsaBuilder::build, second half: Compiler::compile_from_tokens(&tokens).
Compile ==
    /\ pc = "parsed"
    /\ \E r \in compile_from_tokens(tokens) :
        /\ compiled' = r
        /\ pc' = (IF r.ok THEN "built" ELSE "build_failed")
    /\ UNCHANGED <<raw_template, parts, tokens, calls, cast_in, cast_out, parse_in, parse_out>>

\* Mutant of RenderBegin: a call that starts while another one is rendering
\* continues with that call's cursor and output buffer.
RenderBegin_shared(c, parameters) ==
    /\ pc = "built"
    /\ calls[c].pc = "idle"
    /\ LET busy == {d \in DOMAIN calls : calls[d].pc = "rendering"}
           fresh == RenderContext_new(raw_template, parameters)
       IN  calls' = [calls EXCEPT ![c] =
                        [pc |-> "rendering",
                         ctx |-> IF busy = {} THEN fresh
                                 ELSE [calls[CHOOSE d \in busy : TRUE].ctx
                                          EXCEPT !.parameters = parameters],
                         next |-> 1, result |-> NoResult]]
    /\ UNCHANGED <<pc, raw_template, parts, tokens, compiled, cast_in, cast_out, parse_in, parse_out>>

\* Renderer::render_with_parameters, entry: RenderContext::new.
RenderBegin(c, parameters) ==
    /\ pc = "built"
    /\ calls[c].pc = "idle"
    /\ calls' = [calls EXCEPT ![c] = [pc |-> "rendering",
                                      ctx |-> RenderContext_new(raw_template, parameters),
                                      next |-> 1, result |-> NoResult]]
    /\ UNCHANGED <<pc, raw_template, parts, tokens, compiled, cast_in, cast_out, parse_in, parse_out>>

\* Mutant of RenderNext: a failing instruction is removed from the compiled template.
RenderNext_consuming(c) ==
    /\ calls[c].pc = "rendering"
    /\ calls[c].next <= Len(compiled.template.replacements)
    /\ LET r == RenderContext_next(calls[c].ctx, compiled.template.replacements[calls[c].next]) IN
       /\ calls' = [calls EXCEPT ![c] =
                       IF r.ok THEN [@ EXCEPT !.ctx = r.ctx, !.next = @ + 1]
                       ELSE [@ EXCEPT !.pc = "failed", !.result = r]]
       /\ compiled' =
             IF r.ok THEN compiled
             ELSE [compiled EXCEPT !.template.replacements =
                      SubSeq(@, 1, calls[c].next - 1) \o SubSeq(@, calls[c].next + 1, Len(@))]
    /\ UNCHANGED <<pc, raw_template, parts, tokens, cast_in, cast_out, parse_in, parse_out>>

\* One iteration of `for replacement in replacements { ctx.next(replacement)?; }`.
RenderNext(c) ==
    /\ calls[c].pc = "rendering"
    /\ calls[c].next <= Len(compiled.template.replacements)
    /\ LET r == RenderContext_next(calls[c].ctx, compiled.template.replacements[calls[c].next]) IN
       calls' = [calls EXCEPT ![c] =
                    IF r.ok THEN [@ EXCEPT !.ctx = r.ctx, !.next = @ + 1]
                    ELSE [@ EXCEPT !.pc = "failed", !.result = r]]
    /\ UNCHANGED <<pc, raw_template, parts, tokens, compiled, cast_in, cast_out, parse_in, parse_out>>

\* Mutant of RenderOutput: the remaining characters are flushed only by the first
\* call that finishes.
RenderOutput_flush_once(c) ==
    /\ calls[c].pc = "rendering"
    /\ calls[c].next > Len(compiled.template.replacements)
    /\ calls' = [calls EXCEPT ![c] =
                    [@ EXCEPT !.pc = "done",
                              !.result =
                                  [ok |-> TRUE,
                                   output |-> IF \E d \in DOMAIN calls : calls[d].pc = "done"
                                              THEN calls[c].ctx.output
                                              ELSE RenderContext_output(calls[c].ctx)]]]
    /\ UNCHANGED <<pc, raw_template, parts, tokens, compiled, cast_in, cast_out, parse_in, parse_out>>

\* The end of render_with_parameters: Ok(ctx.output()).
RenderOutput(c) ==
    /\ calls[c].pc = "rendering"
    /\ calls[c].next > Len(compiled.template.replacements)
    /\ calls' = [calls EXCEPT ![c] =
                    [@ EXCEPT !.pc = "done",
                              !.result = [ok |-> TRUE, output |-> RenderContext_output(calls[c].ctx)]]]
    /\ UNCHANGED <<pc, raw_template, parts, tokens, compiled, cast_in, cast_out, parse_in, parse_out>>

Next ==
    \/ Parse
    \/ Compile
    \/ \E c \in DOMAIN calls, parameters \in ParameterMaps : RenderBegin(c, parameters)
    \/ \E c \in DOMAIN calls : RenderNext(c)
    \/ \E c \in DOMAIN calls : RenderOutput(c)

Spec == Init /\ [][Next]_vars

\* Building only: templates with invalid blocks, parsed and compiled.
InitBuild == InitFrom(BuildParts)

NextBuild == Parse \/ Compile

SpecBuild == InitBuild /\ [][NextBuild]_vars

\* Stray braces and fragments of blocks, none of which holds a `:` (both kinds
\* of block need one), and one parameter block.
StrayParts ==
    {Lit("a"), Lit("{"), Lit("}"), Lit("{{ x }}"), Lit("{{@ "), Lit(" = 1 }}"),
     StringParam("{{ x : string }}", "x")}

InitStray == InitFrom(StrayParts)

SpecStray == InitStray /\ [][Next]_vars

\* Scanning: blocks without and with inner whitespace, and blocks with a digit
\* run above i64::MAX as the default value and as the name.
OverflowParts ==
    {Block("{{ x : string, defaultValue: " \o OverflowDigits \o " }}", "x"),
     Block("{{ " \o OverflowDigits \o " : string }}", OverflowDigits)}

ScanParts ==
    {Lit("a"), Lit(" \n"), Block("{{k:int}}", "k"),
     Block("{{@\n k : string = \"v\"\t}}", "k")} \cup OverflowParts

InitScan == InitFrom(ScanParts)

SpecScan == InitScan /\ [][NextBuild]_vars

\* Several render calls on one template: the number of calls and the parts.
MaxCalls == 2

CallParts ==
    {Lit("a"), StringParam("{{ x : string }}", "x"),
     Block("{{ n : float, defaultValue: 80000 }}", "n")}

\* Template::render_html_string called MaxCalls times on one built template.
InitCalls ==
    /\ pc = "source"
    /\ parts \in PartSeqs(CallParts)
    /\ raw_template = PartsText(parts)
    /\ tokens = <<>>
    /\ compiled = NotCompiled
    /\ calls = [c \in 1..MaxCalls |-> IdleCall]
    /\ cast_in = NoCast
    /\ cast_out = NoCast
    /\ parse_in = NoParse
    /\ parse_out = NoParse

SpecCalls == InitCalls /\ [][Next]_vars

\* Declarations and defaults: a declaration block, parameters of three types
\* with a default (one that is cast when compiled), a parameter without one,
\* and one whose default cannot be cast.
DefaultParts ==
    {Lit("a"), StringParam("{{ x : string }}", "x"),
     Block("{{@ k : string = \"v\" }}", "k"),
     Block("{{ n : float, defaultValue: 80000 }}", "n"),
     Block("{{ c : color, defaultValue: \"red\" }}", "c"),
     Block("{{ k : int, defaultValue: 7 }}", "k"),
     Block("{{ k : int, defaultValue: \"v\" }}", "k")}

InitDefaults == InitFrom(DefaultParts)

SpecDefaults == InitDefaults /\ [][Next]_vars

\* Declarations: blocks that declare an identifier again, within one block and
\* across blocks, with values that are cast; one whose value cannot be cast.
DeclParts ==
    {Lit("a"),
     Block("{{@ k : string = \"v\" }}", "k"),
     Block("{{@ k : int = 1, j : float = 2, k : color = \"red\" }}", "k"),
     Block("{{@ j : color = \"blue\" }}", "j"),
     Block("{{@ k : int = \"v\" }}", "k"),
     Block("{{ n : float, defaultValue: 80000 }}", "n"),
     Block("{{ c : color, defaultValue: \"red\" }}", "c"),
     StringParam("{{ x : string }}", "x")}

InitDecl == InitFrom(DeclParts)

SpecDecl == InitDecl /\ [][NextBuild]_vars

\* A stand-alone call of BalsaValue::try_cast.
InitCast ==
    /\ pc = "cast"
    /\ cast_in \in [value : CastValues, target : BalsaType]
    /\ cast_out = NoCast
    /\ parts = <<>>
    /\ raw_template = <<>>
    /\ tokens = <<>>
    /\ compiled = NotCompiled
    /\ calls = [c \in 1..NumCalls |-> IdleCall]
    /\ parse_in = NoParse
    /\ parse_out = NoParse

Cast ==
    /\ pc = "cast"
    /\ cast_out' = try_cast(cast_in.value, cast_in.target)
    /\ pc' = "cast_done"
    /\ UNCHANGED <<raw_template, parts, tokens, compiled, calls, cast_in, parse_in, parse_out>>

NextCast == Cast

SpecCast == InitCast /\ [][NextCast]_vars

\* The parsers of the grammar that are applied on their own.
ParserNames ==
    {"variable_name_p", "int_literal_p", "string_literal_p", "balsa_type_p", "balsa_value_p",
     "balsa_expr_p", "parameter_block_p", "declaration_block_p", "block_p", "balsa_p",
     "char_parser", "string_parser", "literal_text_p", "closing_bracket_p", "left", "optional",
     "key_value_delimiter_p", "key_value_p", "variable_with_type_p", "key_value_list",
     "declaration_list"}

ParserNamed(name) ==
    CASE name = "variable_name_p" -> variable_name_p
      [] name = "int_literal_p" -> int_literal_p
      [] name = "string_literal_p" -> string_literal_p
      [] name = "balsa_type_p" -> balsa_type_p
      [] name = "balsa_value_p" -> balsa_value_p
      [] name = "balsa_expr_p" -> balsa_expr_p
      [] name = "parameter_block_p" -> parameter_block_p
      [] name = "declaration_block_p" -> declaration_block_p
      [] name = "block_p" -> block_p
      [] name = "balsa_p" -> balsa_p
      [] name = "char_parser" -> char_parser(KEY_VALUE_DELIMETER)
      [] name = "string_parser" -> string_parser(Chars("{{@"))
      [] name = "literal_text_p" -> literal_text_p
      [] name = "closing_bracket_p" -> closing_bracket_p
      [] name = "left" -> left(char_parser(KEY_VALUE_DELIMETER), ws_p)
      [] name = "optional" -> optional(take_while_chars_parser({" ", "\t", "\n"}))
      [] name = "key_value_delimiter_p" -> key_value_delimiter_p
      [] name = "key_value_p" -> key_value_p
      [] name = "variable_with_type_p" -> variable_with_type_p
      [] name = "key_value_list" -> delimited_list(key_value_p, list_delimeter)
      [] name = "declaration_list" -> delimited_list(declaration_p, list_delimeter)

\* The texts the parsers are applied to.
ParserInputs ==
    {Chars(""), Chars("item0 :"), Chars("x-y_9 :"), Chars("stringValue :"), Chars("colorName"),
     Chars("integer"), Chars("string "), Chars("12 x"), Chars("\"a b\" c"),
     Chars("\"\""), Chars("\"\" x"), Chars("\"a\\n{\" c"),
     Chars(OverflowDigits \o " "), Chars(OverflowDigitsZero),
     Chars("{{ x : string }}"), Chars("{{@ k : int = 1 }}"),
     Chars("a {{{ x : string }}"), Chars("a { {{ x : string }}"),
     Chars("{{@ }}"), Chars("a{{@ }} b"),
     Chars(": string }}"), Chars("}} b"), Chars(" \n:\tx"),
     Chars("k : int = 1 , j : float = 2 }}"), Chars("defaultValue: 1, a: b }}"),
     Chars("a{{ stringValue : string }}"), Chars("a {{colorName:int}} b"),
     Chars("a{{ x : string, defaultValue: " \o OverflowDigits \o " }}"),
     Chars("a{{ " \o OverflowDigits \o " : string }} b")}

\* The positions a stand-alone parse starts from.
ParserPositions == {0, 5}

\* A stand-alone call of Parser::parse.
InitParser ==
    /\ pc = "parser"
    /\ parse_in \in [parser : ParserNames, pos : ParserPositions, input : ParserInputs]
    /\ parse_out = NoParse
    /\ parts = <<>>
    /\ raw_template = <<>>
    /\ tokens = <<>>
    /\ compiled = NotCompiled
    /\ calls = [c \in 1..NumCalls |-> IdleCall]
    /\ cast_in = NoCast
    /\ cast_out = NoCast

ApplyParser ==
    /\ pc = "parser"
    /\ parse_out' = parse(ParserNamed(parse_in.parser), parse_in.pos, parse_in.input)
    /\ pc' = "parser_done"
    /\ UNCHANGED <<raw_template, parts, tokens, compiled, calls, cast_in, cast_out, parse_in>>

NextParser == ApplyParser

SpecParser == InitParser /\ [][NextParser]_vars

\* The `many` loops of the grammar: the document scanner's, and the one inside
\* each delimited list.
ManyNames == {"balsa_p", "declaration_list", "key_value_list"}

\* The `many` node built inside delimited_list.
delimited_list_many(list) == list.parser.parser.right.parser

ManyNamed(name) ==
    CASE name = "balsa_p" -> balsa_p.parser
      [] name = "declaration_list" ->
            delimited_list_many(delimited_list(declaration_p, list_delimeter))
      [] name = "key_value_list" ->
            delimited_list_many(delimited_list(key_value_p, list_delimeter))

\* The texts the loops are run on.
ManyInputs ==
    {Chars(""), Chars("a"), Chars("a{b{{c"), Chars("{{ x : string }}"),
     Chars("a{{ x : string }} b{{@ k : int = 1 }}c{{{"),
     Chars("a{{k:int}}{{ x : string }}"),
     Chars("a{{ x : string, defaultValue: " \o OverflowDigits \o " }}b"),
     Chars(", k : int = 1 ,j : float = 2, 5 }}"),
     Chars(",defaultValue: 1 , a : b,c:\"d\",}}"),
     Chars(" \n,\tk : int = " \o OverflowDigitsZero \o ", j : int = 2"),
     Chars(", , x : y"), Chars(",")}

\* `parser.parse(end_pos, remainder)` in the loop of `many`, tabulated for the
\* positions and remainders a loop run on these texts can be at.
ManySteps ==
    [a \in UNION {{<<name, pos + k, DropFront(input, k)>> :
                      name \in ManyNames, pos \in ParserPositions, k \in 0..Len(input)} :
                  input \in ManyInputs} |->
        parse(ManyNamed(a[1]).parser, a[2], a[3])]

\* `many`, entry: tokens = Vec::new(), end_pos = pos, remainder = input.
InitMany ==
    /\ pc = "many"
    /\ parse_in \in [parser : ManyNames, pos : ParserPositions, input : ManyInputs]
    /\ parse_out = Parsed(parse_in.input, parse_in.pos, parse_in.pos, <<>>)
    /\ parts = <<>>
    /\ raw_template = <<>>
    /\ tokens = <<>>
    /\ compiled = NotCompiled
    /\ calls = [c \in 1..NumCalls |-> IdleCall]
    /\ cast_in = NoCast
    /\ cast_out = NoCast

\* Mutant of ManyIterate: the item's token is kept, the remainder and the
\* position are not advanced.
ManyIterate_no_advance ==
    /\ pc = "many"
    /\ LET r == ManySteps[<<parse_in.parser, parse_out.end_pos, parse_out.remainder>>] IN
       /\ r.ok
       /\ parse_out' = [parse_out EXCEPT !.token = <<r.token>>]
    /\ UNCHANGED <<pc, raw_template, parts, tokens, compiled, calls, cast_in, cast_out, parse_in>>

\* One iteration of the loop of `many` in which the item parser matches.
ManyIterate ==
    /\ pc = "many"
    /\ LET r == ManySteps[<<parse_in.parser, parse_out.end_pos, parse_out.remainder>>] IN
       /\ r.ok
       /\ parse_out' = [parse_out EXCEPT !.remainder = r.remainder, !.end_pos = r.end_pos,
                                         !.token = Append(@, r.token)]
    /\ UNCHANGED <<pc, raw_template, parts, tokens, compiled, calls, cast_in, cast_out, parse_in>>

\* The iteration in which the item parser fails: `break` on NotMatched, the
\* error returned otherwise.
ManyLeave ==
    /\ pc = "many"
    /\ LET r == ManySteps[<<parse_in.parser, parse_out.end_pos, parse_out.remainder>>] IN
       /\ ~r.ok
       /\ pc' = (IF r.error = "NotMatched" THEN "many_done" ELSE "many_failed")
       /\ parse_out' = (IF r.error = "NotMatched" THEN parse_out ELSE r)
    /\ UNCHANGED <<raw_template, parts, tokens, compiled, calls, cast_in, cast_out, parse_in>>

NextMany == ManyIterate \/ ManyLeave

SpecMany == InitMany /\ [][NextMany]_vars

\* The loop runs on: nothing suspends it between two iterations.
SpecManyLive == SpecMany /\ WF_vars(NextMany)

(***************************************************************************)
(* Properties                                                              *)
(***************************************************************************)

Finished(c) == calls[c].pc \in {"done", "failed"}

IsBlockPart(part) == part.kind # "literal"

\* The offset of part j in the text assembled from ps.
PartOffset(ps, j) == Len(PartsText(SubSeq(ps, 1, j - 1)))

\* Only literal text without `{` and well-formed string parameter blocks.
PlainParts(ps) ==
    \A i \in 1..Len(ps) :
        \/ ps[i].kind = "literal" /\ \A k \in 1..Len(ps[i].text) : ps[i].text[k] # "{"
        \/ ps[i].kind = "string_param"

\* Every block is preceded by at least one literal character.
Separated(ps) ==
    \A i \in 1..Len(ps) : IsBlockPart(ps[i]) => (i > 1 /\ ps[i - 1].kind = "literal")

\* A String value is supplied for every string parameter of ps.
StringsSupplied(ps, parameters) ==
    \A i \in 1..Len(ps) :
        ps[i].kind = "string_param" =>
            (ps[i].name \in DOMAIN parameters /\ parameters[ps[i].name].t = "String")

\* The source text with each block replaced by the supplied value.
Substituted(ps, parameters) ==
    Concat([i \in 1..Len(ps) |->
                IF ps[i].kind = "literal" THEN ps[i].text ELSE parameters[ps[i].name].s])

\* C1: a template of literal text without `{` and string parameter blocks that
\* each follow at least one literal character builds, and rendered with a String
\* for every string parameter it yields the source with each block replaced by
\* the supplied value and all other characters unchanged and in order.
C1_LiteralPassthrough ==
    (PlainParts(parts) /\ Separated(parts)) =>
        /\ pc # "build_failed"
        /\ \A c \in DOMAIN calls :
              (Finished(c) /\ StringsSupplied(parts, calls[c].ctx.parameters)) =>
                  calls[c].result =
                      [ok |-> TRUE, output |-> Substituted(parts, calls[c].ctx.parameters)]

C1_Witness ==
    \E c \in DOMAIN calls :
        /\ PlainParts(parts) /\ Separated(parts)
        /\ Cardinality({i \in 1..Len(parts) : IsBlockPart(parts[i])}) = 2
        /\ calls[c].pc = "done"
        /\ StringsSupplied(parts, calls[c].ctx.parameters)
        /\ calls[c].result.output # raw_template

CityDefaultTemplate == Chars("{{ city : string, defaultValue: \"Unknown\" }}")

\* C2: the template `{{ city : string, defaultValue: "Unknown" }}` rendered
\* without a `city` parameter yields exactly `Unknown`.
C2_DefaultFallback ==
    \A c \in DOMAIN calls :
        (/\ raw_template = CityDefaultTemplate
         /\ Finished(c)
         /\ Chars("city") \notin DOMAIN calls[c].ctx.parameters) =>
            calls[c].result = [ok |-> TRUE, output |-> Chars("Unknown")]

\* C3: the scanner yields one token for every well-formed block, also when two
\* blocks follow each other without literal text between them (here: in templates
\* that start with literal text, so that the first block is always separated).
C3_EveryBlockTokenized ==
    (/\ pc # "source"
     /\ PlainParts(parts)
     /\ parts[1].kind = "literal") =>
        Len(tokens) = Cardinality({i \in 1..Len(parts) : IsBlockPart(parts[i])})

\* t is a suffix of s.
IsSuffix(t, s) == Len(t) <= Len(s) /\ SubSeq(s, Len(s) - Len(t) + 1, Len(s)) = t

\* Call c takes a RenderContext::next step in this transition.
NextStep(c) ==
    /\ calls[c].pc = "rendering"
    /\ calls[c].next <= Len(compiled.template.replacements)
    /\ calls'[c] # calls[c]

\* The step of call c is made with the value v for the parameter p: its text is
\* what the step appends, or it is the value the step rejects.
StepUses(c, p, v) ==
    \/ /\ calls'[c].pc = "rendering"
       /\ try_cast(v, p.variable_type).ok
       /\ IsSuffix(value_text(try_cast(v, p.variable_type).value), calls'[c].ctx.output)
       /\ Len(calls'[c].ctx.output) >=
              Len(calls[c].ctx.output) + Len(value_text(try_cast(v, p.variable_type).value))
    \/ /\ calls'[c].pc = "failed"
       /\ calls'[c].result.error.kind = "InvalidParameterType"
       /\ calls'[c].result.error.received_value = v

\* C4: a Parameter instruction is rendered with the runtime value bound to its
\* name when there is one (also when it has a default), else with its default;
\* with neither, render fails with MissingParameter naming the parameter and
\* returns no output.
C4_ValueResolution ==
    [][\A c \in DOMAIN calls :
        (NextStep(c)
         /\ compiled.template.replacements[calls[c].next].replace_with.r = "Parameter") =>
            LET p == compiled.template.replacements[calls[c].next].replace_with.param
                parameters == calls[c].ctx.parameters
            IN  IF p.variable_name \in DOMAIN parameters
                THEN StepUses(c, p, parameters[p.variable_name])
                ELSE IF p.default_value.some
                THEN StepUses(c, p, p.default_value.v)
                ELSE /\ calls'[c].pc = "failed"
                     /\ calls'[c].result =
                            [ok |-> FALSE,
                             error |-> [kind |-> "MissingParameter",
                                        parameter_name |-> p.variable_name]]]_vars

C4_Witness ==
    \E c \in DOMAIN calls :
        /\ calls[c].pc = "done"
        /\ \E i \in 1..Len(compiled.template.replacements) :
              LET r == compiled.template.replacements[i].replace_with IN
              /\ r.r = "Parameter"
              /\ r.param.default_value.some
              /\ r.param.variable_name \in DOMAIN calls[c].ctx.parameters
              /\ value_text(calls[c].ctx.parameters[r.param.variable_name])
                    # value_text(r.param.default_value.v)

\* n is in the 32-bit signed range -2^31 .. 2^31 - 1.
FitsSigned32(n) ==
    LET two31 == MagOf(Chars("2147483648")) IN
    IF n.neg THEN MagLeq(n.mag, two31) ELSE MagLess(n.mag, two31)

\* The cast table of the specification.
CastAllowed(v, to) ==
    \/ v.t = to
    \/ v.t = "Color" /\ to = "String"
    \/ v.t = "String" /\ to = "Color" /\ is_valid_color(v.s)
    \/ v.t = "Integer" /\ to = "Float" /\ FitsSigned32(v.i)

\* C5: try_cast succeeds exactly for the pairs of the cast table (identity,
\* Color->String, String->Color for a valid colour text, Integer->Float for a
\* 32-bit value) and otherwise fails with InvalidTypeCast carrying the original
\* value, its type and the target type.
C5_CastTable ==
    pc = "cast_done" =>
        LET v == cast_in.value
            to == cast_in.target
        IN  /\ cast_out.ok <=> CastAllowed(v, to)
            /\ ~cast_out.ok =>
                  cast_out = [ok |-> FALSE, error |-> [value |-> v, from |-> v.t, to |-> to]]
            /\ (cast_out.ok /\ v.t = to) => cast_out.value = v
            /\ (cast_out.ok /\ v.t \in {"String", "Color"}) =>
                  (cast_out.value.t = to /\ cast_out.value.s = v.s)

C5_Witness ==
    /\ pc = "cast_done"
    /\ cast_in.value.t = "String"
    /\ cast_in.target = "Color"
    /\ ~is_valid_color(cast_in.value.s)
    /\ ~cast_out.ok

\* C6: Integer(v) casts to Float iff -2^31 <= v <= 2^31 - 1, and then yields the
\* Float numerically equal to v; any other 64-bit v fails with InvalidTypeCast.
C6_IntegerToFloat ==
    (pc = "cast_done" /\ cast_in.value.t = "Integer" /\ cast_in.target = "Float") =>
        IF FitsSigned32(cast_in.value.i)
        THEN cast_out =
                [ok |-> TRUE,
                 value |-> [t |-> "Float",
                            f |-> [neg |-> cast_in.value.i.neg, mag |-> cast_in.value.i.mag,
                                   frac |-> <<>>]]]
        ELSE /\ ~cast_out.ok
             /\ cast_out.error.value = cast_in.value
             /\ cast_out.error.from = "Integer"
             /\ cast_out.error.to = "Float"

C6_Witness ==
    /\ pc = "cast_done"
    /\ cast_in.target = "Float"
    /\ cast_in.value = IntegerV("2147483648")
    /\ ~cast_out.ok

\* C7: a template whose only block is a parameter block with the option key
\* `bogus` fails to build with InvalidParameter naming `bogus`.
C7_UnknownOptionKey ==
    (/\ pc \in {"built", "build_failed"}
     /\ \E i \in 1..Len(parts) : parts[i] = BogusOptionPart
     /\ \A i \in 1..Len(parts) :
            parts[i] = BogusOptionPart
            \/ (parts[i].kind = "literal" /\ parts[i].text # <<"{">>)) =>
        /\ pc = "build_failed"
        /\ compiled.error.kind = "InvalidParameter"
        /\ compiled.error.parameter_name = Chars("bogus")

\* C8: when the resolved value of a parameter cannot be cast to the declared
\* type, render fails with InvalidParameterType carrying the name, the resolved
\* value, that value's type and the declared type, and returns no output.
C8_InvalidParameterType ==
    [][\A c \in DOMAIN calls :
        (NextStep(c)
         /\ compiled.template.replacements[calls[c].next].replace_with.r = "Parameter") =>
            LET p == compiled.template.replacements[calls[c].next].replace_with.param
                parameters == calls[c].ctx.parameters
                resolved == IF p.variable_name \in DOMAIN parameters
                            THEN Some(parameters[p.variable_name])
                            ELSE p.default_value
            IN  (resolved.some /\ ~CastAllowed(resolved.v, p.variable_type)) =>
                    /\ calls'[c].pc = "failed"
                    /\ calls'[c].result =
                          [ok |-> FALSE,
                           error |-> [kind |-> "InvalidParameterType",
                                      parameter_name |-> p.variable_name,
                                      received_value |-> resolved.v,
                                      received_type |-> resolved.v.t,
                                      expected_type |-> p.variable_type]]]_vars

C8_Witness ==
    \E c \in DOMAIN calls :
        /\ calls[c].pc = "failed"
        /\ calls[c].result.error.kind = "InvalidParameterType"
        /\ calls[c].next > 1
        /\ calls[c].ctx.output # <<>>

\* C9: the instructions of a compiled template are strictly increasing in start,
\* have start <= end, do not overlap, and are the spans of blocks of the source
\* in their left-to-right order.
C9_InstructionOrder ==
    pc = "built" =>
        LET rs == compiled.template.replacements IN
        /\ \A i \in 1..Len(rs) : rs[i].start_pos <= rs[i].end_pos
        /\ \A i \in 1..(Len(rs) - 1) :
              /\ rs[i].start_pos < rs[i + 1].start_pos
              /\ rs[i].end_pos <= rs[i + 1].start_pos
        /\ \A i \in 1..Len(rs) :
              \E j \in 1..Len(parts) :
                  /\ IsBlockPart(parts[j])
                  /\ rs[i].start_pos = PartOffset(parts, j)
                  /\ rs[i].end_pos = PartOffset(parts, j) + Len(parts[j].text)
                  /\ rs[i].replace_with.r = "Parameter"
                  /\ rs[i].replace_with.param.variable_name = parts[j].name

C9_Witness ==
    /\ pc = "built"
    /\ Len(compiled.template.replacements) >= 2
    /\ compiled.template.replacements[1].replace_with.param.variable_name
          # compiled.template.replacements[2].replace_with.param.variable_name

\* The checks a parameter block token fails, by the stage of parse_param_block.
ParamDefect(token) ==
    IF token.param.variable_name.e # "Identifier" THEN {"InvalidIdentifierForParameterBlock"}
    ELSE IF token.param.variable_type.e # "Type" THEN {"InvalidTypeExpression"}
    ELSE IF ~token.param.options.some THEN {}
    ELSE LET o == token.param.options.v IN
         {"InvalidParameter" : k \in {k \in DOMAIN o : k # Chars("defaultValue")}}
         \cup {"InvalidExpression" :
                 k \in {k \in DOMAIN o : k = Chars("defaultValue") /\ o[k].e # "Value"}}
         \cup {"InvalidTypeCast" :
                 k \in {k \in DOMAIN o :
                          /\ k = Chars("defaultValue")
                          /\ o[k].e = "Value"
                          /\ ~CastAllowed(o[k].value, token.param.variable_type.ty)}}

\* The check the first invalid declaration of a declaration block token fails.
DeclarationDefect(d) ==
    IF d.identifier.e # "Identifier" THEN {"InvalidIdentifierForDeclarationBlock"}
    ELSE IF d.variable_type.e # "Type" THEN {"InvalidTypeExpression"}
    ELSE IF d.value.e # "Value" THEN {"InvalidExpression"}
    ELSE IF ~CastAllowed(d.value.value, d.variable_type.ty) THEN {"InvalidTypeCast"}
    ELSE {}

TokenDefect(token) ==
    IF token.b = "ParameterBlock" THEN ParamDefect(token)
    ELSE LET bad == {i \in 1..Len(token.declarations) :
                        DeclarationDefect(token.declarations[i]) # {}}
         IN  IF bad = {} THEN {}
             ELSE DeclarationDefect(
                      token.declarations[CHOOSE i \in bad : \A j \in bad : i <= j])

\* C10: compile_from_tokens returns the error of the first failing check: that
\* of the first invalid token in source order, and within a parameter block the
\* name check before the type check before the option checks; on an error no
\* CompiledTemplate is returned.
C10_FirstErrorWins ==
    pc \in {"built", "build_failed"} =>
        LET bad == {i \in 1..Len(tokens) : TokenDefect(tokens[i]) # {}} IN
        IF bad = {} THEN pc = "built" /\ compiled.ok
        ELSE LET first == CHOOSE i \in bad : \A j \in bad : i <= j IN
             /\ pc = "build_failed"
             /\ DOMAIN compiled = {"ok", "error"}
             /\ ~compiled.ok
             /\ compiled.error.pos = tokens[first].start_pos
             /\ compiled.error.kind \in TokenDefect(tokens[first])

C10_Witness ==
    /\ pc = "build_failed"
    /\ Len(tokens) >= 2
    /\ TokenDefect(tokens[1]) = {"InvalidIdentifierForParameterBlock"}
    /\ TokenDefect(tokens[2]) # {}
    /\ compiled.error.kind = "InvalidIdentifierForParameterBlock"

\* The declaration block of the rendered templates.
DeclarationPart == Block("{{@ k : string = \"v\" }}", "k")

\* Literal text without `{`, string parameter blocks and the declaration block.
PlainOrDeclarationParts(ps) ==
    \A i \in 1..Len(ps) :
        \/ ps[i].kind = "literal" /\ \A k \in 1..Len(ps[i].text) : ps[i].text[k] # "{"
        \/ ps[i].kind = "string_param"
        \/ ps[i] = DeclarationPart

\* The source text with each parameter block replaced by the supplied value and
\* each declaration block removed.
SubstitutedAndElided(ps, parameters) ==
    Concat([i \in 1..Len(ps) |->
                IF ps[i].kind = "literal" THEN ps[i].text
                ELSE IF ps[i] = DeclarationPart THEN <<>>
                ELSE parameters[ps[i].name].s])

\* C11: for a template with a declaration block, the compiled template has a
\* ReplaceWith::Nothing instruction covering the block's span, and a render
\* leaves the block's source text out of its output.
C11_DeclarationElided ==
    (/\ pc = "built"
     /\ PlainOrDeclarationParts(parts)
     /\ Separated(parts)) =>
        /\ \A j \in 1..Len(parts) :
              parts[j] = DeclarationPart =>
                  \E i \in 1..Len(compiled.template.replacements) :
                      compiled.template.replacements[i] =
                          [start_pos |-> PartOffset(parts, j),
                           end_pos |-> PartOffset(parts, j) + Len(parts[j].text),
                           replace_with |-> [r |-> "Nothing"]]
        /\ \A c \in DOMAIN calls :
              (calls[c].pc = "done" /\ StringsSupplied(parts, calls[c].ctx.parameters)) =>
                  calls[c].result.output =
                      SubstitutedAndElided(parts, calls[c].ctx.parameters)

\* C12: a render step leaves the compiled template and the raw text unchanged,
\* and a call that finishes when another call has failed returns what
\* render_with_parameters returns for its own parameters on the built template.
C12_RenderFrame ==
    [][pc = "built" =>
        /\ compiled' = compiled
        /\ raw_template' = raw_template
        /\ \A c, d \in DOMAIN calls :
              (calls'[d].pc = "failed" /\ calls'[c].pc = "done") =>
                  calls'[c].result =
                      render_with_parameters(raw_template, compiled.template,
                                             calls'[c].ctx.parameters)]_vars

C12_Witness ==
    \E c, d \in DOMAIN calls :
        /\ calls[d].pc = "failed"
        /\ calls[d].ctx.output # <<>>
        /\ calls[c].pc = "done"
        /\ calls[c].result.output # raw_template

\* C13: in every interleaving of the steps of several render calls on one
\* template, each finished call has the result it has when run alone.
C13_CallsIsolated ==
    \A c \in DOMAIN calls :
        Finished(c) =>
            calls[c].result =
                render_with_parameters(raw_template, compiled.template, calls[c].ctx.parameters)

C13_Witness ==
    \E c, d \in DOMAIN calls :
        /\ c # d
        /\ calls[c].pc = "done"
        /\ calls[c].result.output # raw_template
        /\ calls[d].pc = "rendering"
        /\ calls[d].next > 1
        /\ calls[d].ctx.parameters # calls[c].ctx.parameters
        /\ calls[d].ctx.output # SubSeq(calls[c].result.output, 1, Len(calls[d].ctx.output))

\* C14: two finished render calls on the same template with the same runtime
\* parameters have identical results.
C14_RenderDeterministic ==
    \A c, d \in DOMAIN calls :
        (Finished(c) /\ Finished(d) /\ calls[c].ctx.parameters = calls[d].ctx.parameters) =>
            calls[c].result = calls[d].result

C14_Witness ==
    \E c, d \in DOMAIN calls :
        /\ c # d
        /\ calls[c].pc = "done"
        /\ calls[d].pc = "done"
        /\ calls[c].ctx.parameters = calls[d].ctx.parameters
        /\ calls[c].result.output # raw_template

\* The text has no block: it is assembled from literal parts without a `:`.
NoBlockParts(ps) ==
    \A i \in 1..Len(ps) :
        ps[i].kind = "literal" /\ \A k \in 1..Len(ps[i].text) : ps[i].text[k] # ":"

\* C15: a text without a block, stray `{` and `}` included, builds to an empty
\* instruction list and an empty global scope, and every render of it returns
\* the text unchanged.
C15_NoBlockIdentity ==
    NoBlockParts(parts) =>
        /\ pc # "build_failed"
        /\ pc = "built" =>
              /\ compiled.template.replacements = <<>>
              /\ compiled.template.global_scope = EmptyMap
        /\ \A c \in DOMAIN calls :
              calls[c].pc # "failed"
              /\ (calls[c].pc = "done" =>
                     calls[c].result = [ok |-> TRUE, output |-> raw_template])

C15_Witness ==
    \E c \in DOMAIN calls :
        /\ NoBlockParts(parts)
        /\ \E i \in 1..Len(parts) : parts[i].text = Chars("{{ x }}")
        /\ \E i \in 1..Len(parts) : parts[i].text = Chars("}")
        /\ calls[c].pc = "done"
        /\ calls[c].ctx.parameters # EmptyMap

\* C16: every block token spans exactly one block of the source: start_pos is
\* the offset of the block's first `{`, end_pos the offset just past its last
\* `}`, whatever literal text precedes the block and whatever whitespace it holds.
C16_TokenSpans ==
    pc # "source" =>
        \A i \in 1..Len(tokens) :
            /\ raw_template[tokens[i].start_pos + 1] = "{"
            /\ raw_template[tokens[i].end_pos] = "}"
            /\ \E j \in 1..Len(parts) :
                  /\ IsBlockPart(parts[j])
                  /\ tokens[i].start_pos = PartOffset(parts, j)
                  /\ tokens[i].end_pos - tokens[i].start_pos = Len(parts[j].text)
                  /\ SubSeq(raw_template, tokens[i].start_pos + 1, tokens[i].end_pos)
                        = parts[j].text

C16_Witness ==
    /\ pc = "parsed"
    /\ \E i \in 1..Len(tokens) :
          /\ tokens[i].b = "DeclarationBlock"
          /\ tokens[i].start_pos > 1
    /\ \E i \in 1..Len(tokens) :
          /\ tokens[i].b = "ParameterBlock"
          /\ tokens[i].end_pos - tokens[i].start_pos = Len("{{k:int}}")
          /\ tokens[i].start_pos > 1

\* C17: `or(left, right)` returns left's result when left succeeds, runs right
\* only when left failed with NotMatched, and returns left's MalformedInput
\* without running right.
C17_OrKeepsMalformed ==
    (pc = "parser_done" /\ ParserNamed(parse_in.parser).k = "or") =>
        LET p == ParserNamed(parse_in.parser)
            l == parse(p.left, parse_in.pos, parse_in.input)
        IN  IF l.ok \/ l.error = "MalformedInput"
            THEN parse_out = l
            ELSE parse_out = parse(p.right, parse_in.pos, parse_in.input)

\* C18: a template with a block in which an expression is a digit run above
\* i64::MAX fails to build with TemplateParseFail.
C18_OverflowFailsParse ==
    (/\ pc \in {"parsed", "built", "build_failed"}
     /\ Separated(parts)
     /\ \E i \in 1..Len(parts) : parts[i] \in OverflowParts) =>
        /\ pc = "build_failed"
        /\ compiled.error.kind = "TemplateParseFail"
        /\ tokens = <<>>

\* The identifier characters of the grammar: [A-Za-z0-9_-].
IdentifierChars ==
    CharSet(Chars("abcdefghijklmnopqrstuvwxyzABCDEFGHIJKLMNOPQRSTUVWXYZ0123456789_-"))

\* The longest run of identifier characters at the front of a text.
LeadingIdentifier(input) == SubSeq(input, 1, LeadingIn(input, IdentifierChars))

\* C19: the identifier parser returns the longest non-empty run of characters of
\* [A-Za-z0-9_-] at the front of the input, with the rest as remainder, and does
\* not match when that run is empty.
C19_IdentifierCharacters ==
    (pc = "parser_done" /\ parse_in.parser = "variable_name_p") =>
        LET name == LeadingIdentifier(parse_in.input) IN
        IF name = <<>> THEN parse_out = NotMatched
        ELSE parse_out = Parsed(DropFront(parse_in.input, Len(name)), parse_in.pos,
                                parse_in.pos + Len(name), name)

\* The type keywords of the grammar.
TypeKeywords == {Chars("string"), Chars("color"), Chars("int"), Chars("float")}

BeginsWithKeyword(tok) ==
    \E kw \in TypeKeywords : Len(kw) <= Len(tok) /\ SubSeq(tok, 1, Len(kw)) = kw

\* C20: the expression parser classifies a token that begins with a type keyword
\* as Type only when it is exactly the keyword, and otherwise as one Identifier
\* covering the whole token; a parameter block named `stringValue` then compiles
\* to an instruction with that name.
C20_KeywordPrefixIsIdentifier ==
    pc = "parser_done" =>
        /\ (parse_in.parser = "balsa_expr_p"
            /\ BeginsWithKeyword(LeadingIdentifier(parse_in.input))) =>
              LET tok == LeadingIdentifier(parse_in.input) IN
              /\ parse_out.ok
              /\ parse_out.remainder = DropFront(parse_in.input, Len(tok))
              /\ parse_out.end_pos = parse_in.pos + Len(tok)
              /\ IF tok \in TypeKeywords THEN parse_out.token.e = "Type"
                 ELSE parse_out.token = [e |-> "Identifier", name |-> tok]
        /\ (parse_in.parser = "balsa_p"
            /\ parse_in.input = Chars("a{{ stringValue : string }}")) =>
              /\ parse_out.ok
              /\ Len(parse_out.token) = 1
              /\ \A r \in compile_from_tokens(parse_out.token) :
                    /\ r.ok
                    /\ Len(r.template.replacements) = 1
                    /\ r.template.replacements[1].replace_with.param.variable_name
                          = Chars("stringValue")

\* The text between the quote that opens `input` and the next quote.
QuotedText(input) == SubSeq(Tail(input), 1, LeadingNotIn(Tail(input), {"\""}))

\* `input` begins with a quote, a text without quotes, and a closing quote.
BeginsWithLiteral(input) ==
    /\ input # <<>>
    /\ Head(input) = "\""
    /\ Len(QuotedText(input)) + 2 <= Len(input)

\* C21: for a text t without a quote, the empty text included, the string
\* literal parser applied to `"` t `"` succeeds with String(t), taken character
\* for character, and consumes through the closing quote.
C21_StringLiteral ==
    (/\ pc = "parser_done"
     /\ parse_in.parser = "string_literal_p"
     /\ BeginsWithLiteral(parse_in.input)) =>
        LET t == QuotedText(parse_in.input) IN
        parse_out = Parsed(DropFront(parse_in.input, Len(t) + 2), parse_in.pos,
                           parse_in.pos + Len(t) + 2, [t |-> "String", s |-> t])

\* A well-formed parameter block.
StringBlockText == Chars("{{ x : string }}")

\* The text of `input` before its last Len(StringBlockText) characters.
BeforeBlock(input) == SubSeq(input, 1, Len(input) - Len(StringBlockText))

\* `input` is literal text that holds a `{` starting no block (no `:` and no `@`
\* follows it in that text), and then a well-formed parameter block.
StrayBraceThenBlock(input) ==
    /\ Len(input) > Len(StringBlockText)
    /\ DropFront(input, Len(input) - Len(StringBlockText)) = StringBlockText
    /\ Head(input) # "{"
    /\ \E i \in 1..Len(BeforeBlock(input)) : input[i] = "{"
    /\ \A i \in 1..Len(BeforeBlock(input)) : input[i] \notin {":", "@", "}"}

\* C22: a `{` that starts no block is skipped as one character of literal text,
\* so the well-formed block that follows the stray braces, even one beginning at
\* the very next `{`, is tokenized with its own span.
C22_StrayBraceSkipsOne ==
    (/\ pc = "parser_done"
     /\ parse_in.parser = "balsa_p"
     /\ StrayBraceThenBlock(parse_in.input)) =>
        /\ parse_out.ok
        /\ Len(parse_out.token) = 1
        /\ parse_out.token[1].b = "ParameterBlock"
        /\ parse_out.token[1].start_pos = parse_in.pos + Len(BeforeBlock(parse_in.input))
        /\ parse_out.token[1].end_pos = parse_in.pos + Len(parse_in.input)

\* C23: the declaration-block parser matches only a block with at least one
\* declaration, and the scanner produces no DeclarationBlock token without one.
C23_DeclarationBlockNonEmpty ==
    pc = "parser_done" =>
        /\ (parse_in.parser = "declaration_block_p" /\ parse_out.ok) =>
              Len(parse_out.token.declarations) >= 1
        /\ (parse_in.parser = "balsa_p" /\ parse_out.ok) =>
              \A i \in 1..Len(parse_out.token) :
                  parse_out.token[i].b = "DeclarationBlock" =>
                      Len(parse_out.token[i].declarations) >= 1

\* The part is a declaration block: its text begins with `{{@`.
IsDeclarationPart(part) == IsBlockPart(part) /\ SubSeq(part.text, 1, 3) = Chars("{{@")

\* The parameter block tokens of a token list, in order.
ParameterTokens(toks) == SelectSeq(toks, LAMBDA t : t.b = "ParameterBlock")

\* The instruction compiled for the parameter block that is part j of ps.
InstructionOfPart(ps, j) ==
    compiled.template.replacements[
        Cardinality({i \in 1..j : IsBlockPart(ps[i]) /\ ~IsDeclarationPart(ps[i])})]

\* The source text with each parameter block replaced by the text of the value
\* it resolves to, and every other character, the declaration blocks' included,
\* kept.
SubstitutedKeepingDeclarations(ps, parameters) ==
    Concat([j \in 1..Len(ps) |->
                IF ~IsBlockPart(ps[j]) \/ IsDeclarationPart(ps[j]) THEN ps[j].text
                ELSE LET p == InstructionOfPart(ps, j).replace_with.param IN
                     value_text(try_cast(resolve_value(parameters, p).v,
                                         p.variable_type).value)])

RECURSIVE AllDeclarations(_)
\* The declarations of the declaration blocks of a token list, in source order.
AllDeclarations(toks) ==
    IF toks = <<>> THEN <<>>
    ELSE (IF Head(toks).b = "DeclarationBlock" THEN Head(toks).declarations ELSE <<>>)
             \o AllDeclarations(Tail(toks))

\* The index of the last declaration of `name` in ds.
LastDeclaration(ds, name) ==
    CHOOSE i \in 1..Len(ds) :
        /\ ds[i].identifier.name = name
        /\ \A j \in (i + 1)..Len(ds) : ds[j].identifier.name # name

\* C25: after a successful compile the global scope maps exactly the declared
\* identifiers, each to the value of its last declaration in source order, over
\* all declaration blocks, cast to that declaration's type; redeclaring an
\* identifier raises no error.
C25_LastWriteWins ==
    pc = "built" =>
        LET ds == AllDeclarations(tokens)
            scope == compiled.template.global_scope
        IN  /\ DOMAIN scope = {ds[i].identifier.name : i \in 1..Len(ds)}
            /\ \A name \in DOMAIN scope :
                  LET d == ds[LastDeclaration(ds, name)] IN
                  /\ try_cast(d.value.value, d.variable_type.ty).ok
                  /\ scope[name] = try_cast(d.value.value, d.variable_type.ty).value

\* Redeclaration within a block and across blocks: `j` is declared as a color
\* and then as a float, `k` as an int and then as a color.
C25_Witness ==
    /\ pc = "built"
    /\ raw_template =
          Chars("a{{@ j : color = \"blue\" }}a"
                    \o "{{@ k : int = 1, j : float = 2, k : color = \"red\" }}")
    /\ Len(AllDeclarations(tokens)) = 4
    /\ compiled.template.global_scope =
          MapOf(<< <<"k", ColorV("red")>>, <<"j", FloatV(FALSE, "2", "")>> >>)

\* C26: in a compiled template each parameter instruction's default value, when
\* present, has the parameter's declared type, and each global-scope value has
\* the type of the declaration it comes from.
C26_CompiledTypes ==
    pc = "built" =>
        /\ \A i \in 1..Len(compiled.template.replacements) :
              LET p == compiled.template.replacements[i].replace_with.param IN
              p.default_value.some => get_type(p.default_value.v) = p.variable_type
        /\ LET ds == AllDeclarations(tokens) IN
           \A name \in DOMAIN compiled.template.global_scope :
              get_type(compiled.template.global_scope[name])
                  = ds[LastDeclaration(ds, name)].variable_type.ty

\* A default and a declared value whose literals are of another type than the
\* declared one: an Integer literal for a float, a String literal for a color.
C26_Witness ==
    /\ pc = "built"
    /\ \E i \in 1..Len(tokens) :
          /\ tokens[i].b = "ParameterBlock"
          /\ tokens[i].param.options.some
          /\ get_type(tokens[i].param.options.v[DEFAULT_VALUE].value) = "Integer"
          /\ tokens[i].param.variable_type.ty = "Float"
    /\ \E i \in 1..Len(AllDeclarations(tokens)) :
          LET d == AllDeclarations(tokens)[i] IN
          /\ get_type(d.value.value) = "String"
          /\ d.variable_type.ty = "Color"
          /\ LastDeclaration(AllDeclarations(tokens), d.identifier.name) = i

\* C27: a render step for a parameter whose name the parameter map lacks fails
\* only when the instruction has no default, and then with MissingParameter; a
\* compiled default is cast to the declared type as itself and its text is
\* appended.
C27_DefaultNeverRejected ==
    [][\A c \in DOMAIN calls :
        (/\ NextStep(c)
         /\ compiled.template.replacements[calls[c].next].replace_with.r = "Parameter"
         /\ compiled.template.replacements[calls[c].next].replace_with.param.variable_name
               \notin DOMAIN calls[c].ctx.parameters) =>
            LET p == compiled.template.replacements[calls[c].next].replace_with.param IN
            IF p.default_value.some
            THEN /\ try_cast(p.default_value.v, p.variable_type)
                       = [ok |-> TRUE, value |-> p.default_value.v]
                 /\ calls'[c].pc = "rendering"
                 /\ IsSuffix(value_text(p.default_value.v), calls'[c].ctx.output)
            ELSE /\ calls'[c].pc = "failed"
                 /\ calls'[c].result.error.kind = "MissingParameter"]_vars

\* A render without runtime parameters that has passed a parameter with a cast
\* default and has then failed on a parameter without a default.
C27_Witness ==
    \E c \in DOMAIN calls :
        /\ calls[c].ctx.parameters = EmptyMap
        /\ calls[c].pc = "failed"
        /\ calls[c].result.error.kind = "MissingParameter"
        /\ calls[c].next > 1
        /\ \E i \in 1..(calls[c].next - 1) :
              LET p == compiled.template.replacements[i].replace_with.param IN
              p.default_value.some /\ p.variable_type \in {"Float", "Color"}

\* C28: compiling a token list has one possible result, whatever the order in
\* which the options map of a parameter block is iterated; the result the build
\* holds is that one.
C28_CompileDeterministic ==
    (pc \in {"built", "build_failed"} /\ compiled # TemplateParseFail) =>
        compile_from_tokens(tokens) = {compiled}

\* C29: every iteration of a `many` loop of the grammar consumes at least one
\* character, every loop ends, and it ends with what the parser returns.
C29_ManyTerminates ==
    /\ [][(pc = "many" /\ pc' = "many") =>
            /\ Len(parse_out'.remainder) < Len(parse_out.remainder)
            /\ parse_out'.end_pos > parse_out.end_pos]_vars
    /\ <>(pc \in {"many_done", "many_failed"})
    /\ [](pc \in {"many_done", "many_failed"} =>
            parse_out = parse(ManyNamed(parse_in.parser), parse_in.pos, parse_in.input))

\* The scanner's loop has ended after three iterations, one of them on a `{`
\* that starts no block, and a list's loop after two.
C29_Witness ==
    /\ pc = "many_done"
    /\ \/ parse_in.parser = "balsa_p" /\ Len(parse_out.token) = 3
             /\ \E i \in 1..3 : ~parse_out.token[i].some
       \/ parse_in.parser = "declaration_list" /\ Len(parse_out.token) = 2

\* C30: a successful parse started at pos returns a span with start_pos = pos and
\* start_pos <= end_pos, and a remainder that is the input without its first
\* end_pos - pos characters; an `optional` whose parser does not match returns
\* the span [pos, pos), no token, and the input unchanged.
C30_SpanInvariants ==
    pc = "parser_done" =>
        /\ parse_out.ok =>
              /\ parse_out.start_pos = parse_in.pos
              /\ parse_out.start_pos <= parse_out.end_pos
              /\ parse_out.end_pos - parse_in.pos <= Len(parse_in.input)
              /\ parse_out.remainder =
                    DropFront(parse_in.input, parse_out.end_pos - parse_in.pos)
        /\ (/\ parse_in.parser = "optional"
            /\ parse(ParserNamed("optional").parser, parse_in.pos, parse_in.input) = NotMatched) =>
              parse_out = Parsed(parse_in.input, parse_in.pos, parse_in.pos, None)

\* A list of two declarations parsed from position 5, with text left over.
C30_Witness ==
    /\ pc = "parser_done"
    /\ parse_in.parser = "declaration_list"
    /\ parse_in.pos = 5
    /\ parse_out.ok
    /\ Len(parse_out.token) = 2
    /\ parse_out.end_pos > 5
    /\ parse_out.remainder # <<>>

====
